---- MODULE Spec2Model ----
(***************************************************************************)
(* Model of VMExecution (packages/client, execution/vmexecution), the       *)
(* block-execution engine: the execution gate (runWithLock), the head       *)
(* manager (runWithoutSetHead / setHead), the lifecycle (open / start /     *)
(* stop), the run loop and the debug replay (executeBlocks).                *)
(* Every async method is cut at its await points; a caller's                *)
(* position is pc[p] and its arguments and locals are fr[p].                *)
(***************************************************************************)
EXTENDS Integers, Sequences, FiniteSets, TLC

(***************************************************************************)
(* Bounds of the model.                                                     *)
(***************************************************************************)
\* longest block list handed to setHead
MaxList == 2
\* largest config.numBlocksPerIteration, the iterator's maxBlocks
NumBlocksPerIteration == 2
\* height of the longest chain the sync scenarios store
MaxHeight == 4
\* the history counters of a run call stop counting here
MaxCount == 6

\* number of the first block under the Paris rules (the merge)
ParisBlock == 2

\* the concurrent producers calling into the engine (consensus API, sync, REPL)
Callers == {"c1", "c2"}

(***************************************************************************)
(* The block universe: a genesis block, the chain A1, A2, ... built on it    *)
(* and B1, a competitor of A1 at height 1.  Blocks are immutable records.   *)
(***************************************************************************)
Genesis == "G"
\* the chain built on the genesis block, by height
Chain == <<"A1", "A2", "A3", "A4", "A5">>
Hashes == {"G", "B1"} \cup {Chain[i] : i \in 1..Len(Chain)}
NoHash == "none"

Number(h) ==
  CASE h = "G" -> 0 [] h = "B1" -> 1
    [] OTHER -> CHOOSE i \in 1..Len(Chain) : Chain[i] = h
ParentHash(h) ==
  CASE h = "G" -> NoHash [] h = "B1" -> "G" [] h = "A1" -> "G"
    [] OTHER -> Chain[Number(h) - 1]
StateRoot(h) ==
  CASE h = "G" -> "sG" [] h = "B1" -> "sB1"
    [] OTHER -> <<"sA1", "sA2", "sA3", "sA4", "sA5">>[Number(h)]
\* block.transactions.length; B1 is an empty block
TxCount(h) == IF h = "B1" THEN 0 ELSE 1
Numbers == {Number(h) : h \in Hashes}
\* root of the empty trie, the VM's state root before any state is generated
EmptyRoot == "sEmpty"

CursorNames == {"vm", "safe", "finalized"}

\* the hardfork tags of the table, in order of activation
Hardforks == {"london", "paris"}
\* Common.getHardforkBy({blockNumber, td, timestamp}): the ruleset of a block
HardforkBy(h) == IF Number(h) < ParisBlock THEN "london" ELSE "paris"
\* Common.gteHardfork(Hardfork.Paris) for the current hardfork hf
GteParis(hf) == hf = "paris"

\* an optional value (T | undefined) is the set of at most one element
Undefined == {}
Some(x) == {x}
The(o) == CHOOSE x \in o : TRUE

VARIABLES
  permits,          \* Lock.permits of this._lock
  lockQueue,        \* Lock.promiseResolverQueue: callers suspended in acquire()
  started,          \* Execution.started
  running,          \* Execution.running
  shutdown,         \* config.shutdown
  vmPromise,        \* this.vmPromise: "undefined" | "pending" | "resolved"
  stateDBOpen,      \* this.stateDB is open
  pendingReceipts,  \* this.pendingReceipts: Map block-hash -> receipts
  receiptIndex,     \* receipts persisted by the ReceiptsManager, by block hash
  inFlight,         \* saveReceipts writes dispatched and not yet landed
  stateRoots,       \* state roots the state DB contains
  vmStateRoot,      \* vm.stateManager.getStateRoot()
  blockRec,         \* hashes with a block and header record
  tdRec,            \* hashes with a total-difficulty record
  hashToNumber,     \* hashes with a hash->number record
  canonical,        \* number -> hash, the canonical chain
  canonicalHead,    \* blockchain.getCanonicalHeadBlock()
  cursors,          \* iterator heads vm, safe, finalized
  pc,               \* position of each caller
  fr,               \* arguments and locals of each caller's call
  stashed,          \* history: hashes stashed and not yet seen by a setHead drain
  executedUnseen,   \* history: hashes executed and not yet seen by a setHead drain
  numBlocksPerIteration,  \* config.numBlocksPerIteration
  probe,            \* history: a run on a missing root, its repair and the next run
  execution,        \* config.execution
  hardfork,         \* this.hardfork, the engine's hardfork tag
  execHardfork,     \* config.execCommon.hardfork(), the VM's common
  statsVm,          \* this._statsVm: "undefined" | "vm" | "copy"
  statsInterval,    \* this._statsInterval: a stats timer is scheduled
  switchMsgs,       \* history: 'Execution hardfork switch' messages emitted
  sinceClose        \* history: "never" closed, "closed", or "reopened" after a close

store == <<blockRec, tdRec, hashToNumber, canonical, canonicalHead, cursors>>
state == <<stateRoots, vmStateRoot>>
receiptVars == <<pendingReceipts, receiptIndex, inFlight, stashed, executedUnseen>>
flags == <<started, running, shutdown, vmPromise, stateDBOpen>>
lock == <<permits, lockQueue>>
config == <<numBlocksPerIteration, execution>>
tags == <<hardfork, execHardfork, statsVm, statsInterval, switchMsgs>>
vars == <<permits, lockQueue, started, running, shutdown, vmPromise, stateDBOpen,
          pendingReceipts, receiptIndex, inFlight, stateRoots, vmStateRoot,
          blockRec, tdRec, hashToNumber, canonical, canonicalHead, cursors,
          pc, fr, stashed, executedUnseen, numBlocksPerIteration, probe,
          execution, hardfork, execHardfork, statsVm, statsInterval, switchMsgs,
          sinceClose>>

(***************************************************************************)
(* Receipts.  A receipt list is a sequence; vm.runBlock produces one        *)
(* receipt per transaction, a block builder supplies its own list.          *)
(***************************************************************************)
RunBlockReceipts(h) == [i \in 1..TxCount(h) |-> <<"exec", h>>]
BuiltReceipts(h) == [i \in 1..TxCount(h) |-> <<"built", h>>]

\* Map.get: the value under key h, or undefined
MapGet(m, h) == IF h \in DOMAIN m THEN Some(m[h]) ELSE Undefined
\* Map.set
MapSet(m, h, v) == [k \in (DOMAIN m) \cup {h} |-> IF k = h THEN v ELSE m[k]]
EmptyMap == [k \in {} |-> <<>>]


(***************************************************************************)
(* Call frames.                                                             *)
(***************************************************************************)
\* no scenario is being followed
NoProbe == [phase |-> "none", at |-> NoHash]

NoSnap == [cursors |-> [c \in CursorNames |-> NoHash], pending |-> EmptyMap]

\* the cursors and the pending map as a locked body finds them; both change
\* only under the gate
Snapshot == [cursors |-> cursors, pending |-> pendingReceipts]

IdleFrame ==
  [op |-> "none",
   next |-> "idle",          \* where the call resumes once acquire() resolves
   blk |-> NoHash,           \* runWithoutSetHead: opts.block
   rc |-> Undefined,         \* runWithoutSetHead: receipts
   blocking |-> FALSE,
   skipBc |-> FALSE,
   blocks |-> <<>>,          \* setHead: blocks
   safe |-> Undefined,       \* setHead: safeBlock
   fin |-> Undefined,        \* setHead: finalizedBlock
   loop |-> FALSE,           \* run: loop
   onlyBatched |-> FALSE,    \* run: runOnlybatched
   numKind |-> "undefined",  \* run: numExecuted is undefined, null or a number
   numExecuted |-> 0,        \* run: numExecuted when it is a number
   startHeadBlock |-> NoHash,
   canonicalHead |-> NoHash,
   headBlock |-> Undefined,
   parentState |-> Undefined,
   errorBlock |-> Undefined,
   iterCount |-> 0,          \* iterator: blocks run in this pass
   iterBlock |-> NoHash,     \* iterator: the block handed to the callback
   iterReorg |-> FALSE,      \* iterator: the reorg flag handed to the callback
   clearCache |-> FALSE,     \* run: clearCache
   cbHead |-> Undefined,     \* history: headBlock as the callback selected it
   cbParentState |-> Undefined,  \* history: parentState as the callback selected it
   cbFirst |-> FALSE,        \* history: the callback's call was the first of its pass
   lastRun |-> Undefined,    \* history: the block this run last passed to vm.runBlock
   lastOk |-> Undefined,     \* history: the block this run last executed
   result |-> "none",        \* "true" | "false" | "threw"
   error |-> "",             \* the error thrown
   iterStopped |-> FALSE,    \* history: iterBlock was delivered after shutdown was
                             \* set or started cleared
   first |-> 0,              \* executeBlocks: first, last, txHashes
   last |-> 0,
   txHashes |-> <<>>,
   blockNumber |-> 0,        \* executeBlocks: the loop variable
   copyHardfork |-> "",      \* executeBlocks: hardfork of the VM copy's common
   fired |-> FALSE,          \* history: start has invoked run(true, true)
   vmInit |-> FALSE,         \* history: open has called vm.init()
   awaited |-> FALSE,        \* history: stop has awaited the iterator promise
   duringRun |-> FALSE,      \* history: stop was called while a run was in its
                             \* loop with blocks still to execute
   snap |-> NoSnap,          \* history: cursors and pending map at body entry
   wrote |-> {},             \* history: parts of the block store this call changed
   emits |-> 0,              \* history: chain-updated events of this call
   drained |-> EmptyMap,     \* history: receipts this setHead took from pending
   promoted |-> {},          \* history: blocks this setHead's putBlocks made canonical
   namedOff |-> FALSE,       \* history: a named block was off the canonical chain
   hadRoot |-> TRUE,         \* history: hasStateRoot(vmHead.stateRoot) as checked
   ranBlock |-> 0,           \* history: vm.runBlock invocations of this call
   returned |-> 0,           \* run: the number returned
   passes |-> 0,             \* history: iterator passes of this run
   executed |-> 0,           \* history: blocks this run executed successfully
   failures |-> 0,           \* history: iterator passes of this run that failed
   vmErrors |-> 0,           \* history: SYNC_EXECUTION_VM_ERROR events of this run
   backSteps |-> 0]          \* history: backsteps of the vm cursor by this run

\* one more on a history counter
Bump(n) == IF n < MaxCount THEN n + 1 ELSE n

Range(s) == {s[i] : i \in DOMAIN s}
Last(s) == s[Len(s)]

\* the parts of the block store a step changes
StoreWrites ==
  (IF canonical' # canonical THEN {"canonical"} ELSE {})
    \cup (IF canonicalHead' # canonicalHead THEN {"canonicalHead"} ELSE {})
    \cup (IF blockRec' # blockRec THEN {"block"} ELSE {})
    \cup (IF tdRec' # tdRec THEN {"td"} ELSE {})
    \cup (IF hashToNumber' # hashToNumber THEN {"hashToNumber"} ELSE {})
    \cup {c \in CursorNames : cursors'[c] # cursors[c]}

(***************************************************************************)
(* The execution gate: Lock (a binary semaphore with a FIFO of suspended    *)
(* acquirers) and runWithLock.                                              *)
(***************************************************************************)
\* Lock.acquire resolves at once when a permit is available
LockAvailable == permits > 0

\* runWithLock without the wait: the body is entered whether or not the permit
\* is available
AcquireGateNoWait(p, f, body) ==
  /\ permits' = IF LockAvailable THEN permits - 1 ELSE permits
  /\ pc' = [pc EXCEPT ![p] = body]
  /\ fr' = [fr EXCEPT ![p] = [f EXCEPT !.snap = Snapshot]]
  /\ UNCHANGED lockQueue

\* `await this._lock.acquire()`: take the permit and enter the body at `body`,
\* or suspend in the lock's queue until a release hands the permit over.
\* `f` is the caller's frame.
AcquireGate(p, f, body) ==
  IF LockAvailable
  THEN /\ permits' = permits - 1
       /\ pc' = [pc EXCEPT ![p] = body]
       /\ fr' = [fr EXCEPT ![p] = [f EXCEPT !.snap = Snapshot]]
       /\ UNCHANGED lockQueue
  ELSE /\ lockQueue' = Append(lockQueue, p)
       /\ pc' = [pc EXCEPT ![p] = "suspended"]
       /\ fr' = [fr EXCEPT ![p] = [f EXCEPT !.next = body]]
       /\ UNCHANGED permits

\* Lock.release gives the permit back or hands it to the first suspended
\* acquirer, which resumes in its body.  The releasing caller goes on at
\* `after`.
LockRelease(p, after) ==
  IF permits + 1 = 1 /\ Len(lockQueue) > 0
  THEN LET q == Head(lockQueue) IN
       /\ permits' = 0
       /\ lockQueue' = Tail(lockQueue)
       /\ pc' = [pc EXCEPT ![p] = after, ![q] = fr[q].next]
       /\ fr' = [fr EXCEPT ![q].snap = Snapshot]
  ELSE /\ permits' = permits + 1
       /\ pc' = [pc EXCEPT ![p] = after]
       /\ fr' = fr
       /\ UNCHANGED lockQueue

\* runWithLock without its finally: the lock is released when the body
\* returns and kept when it throws
ReleaseOnReturn(p, after) ==
  IF fr[p].result = "threw"
  THEN /\ pc' = [pc EXCEPT ![p] = after]
       /\ fr' = fr
       /\ UNCHANGED lock
  ELSE LockRelease(p, after)

\* lines 356-358: `finally { this._lock.release() }`, whether the body
\* returned or threw
ReleaseGate(p, after) == LockRelease(p, after)

\* a caller between two calls: it has made none yet, or holds the result of its
\* last one
AtRest(p) == pc[p] \in {"idle", "done"}

\* the positions inside a locked body
BodyPcs ==
  {"op_body", "st_body1", "st_exit1", "st_body2", "st_exit2",
   "rw_begin", "rw_exec", "rw_batch", "rw_exit",
   "run_begin", "run_loop", "run_iter", "run_cb", "run_catch", "run_after", "run_exit",
   "sh_root", "sh_put", "sh_canon", "sh_heads", "sh_update", "sh_exit", "op_exit"}

InBody(p) == pc[p] \in BodyPcs

(***************************************************************************)
(* The collaborators: block store, VM, receipts manager, event bus.         *)
(***************************************************************************)
\* the ancestor of h at height n (h itself at its own height)
RECURSIVE AncestorAt(_, _)
AncestorAt(h, n) ==
  IF h = NoHash \/ Number(h) < n THEN NoHash
  ELSE IF Number(h) = n THEN h ELSE AncestorAt(ParentHash(h), n)

\* Blockchain.putBlock: the block becomes the canonical head; the number->hash
\* mapping follows its ancestors and ends at its height
CanonicalAfterPut(h) == [n \in Numbers |-> AncestorAt(h, n)]

\* chain.getBlock(number).hash, NoHash when no canonical block has that number
CanonicalHashAt(n) == canonical[n]
IsCanonical(h) == CanonicalHashAt(Number(h)) = h

\* vm.stateManager.hasStateRoot
HasStateRoot(root) == root \in stateRoots

\* Chain.update(emit): the number of chain-updated events it signals
ChainUpdate(emit) == IF emit THEN 1 ELSE 0

\* the receipts written to the index and the writes still on their way
SaveReceipts(h, receipts) == inFlight \cup {<<h, receipts>>}

(***************************************************************************)
(* open (lines 364-396)                                                     *)
(***************************************************************************)
OpenCall(p) ==
  /\ AtRest(p)
  /\ AcquireGate(p, [IdleFrame EXCEPT !.op = "open"], "op_body")
  /\ UNCHANGED <<flags, receiptVars, state, store>>
  /\ UNCHANGED <<config, probe, tags, sinceClose>>

\* an open without the guard against re-entry
OpenNeverNoop == FALSE

\* the no-op guard of open: already opened, or stopping midway
OpenIsNoop == started \/ vmPromise # "undefined"

\* line 384: `if (number === BIGINT_0)`, number of the block at the vm cursor
GenesisAtNumberZero == Number(cursors["vm"]) = 0

OpenBody(p) ==
  /\ pc[p] = "op_body"
  /\ IF OpenIsNoop
     THEN UNCHANGED <<started, stateRoots, vmStateRoot, hardfork, execHardfork,
                      sinceClose>>
     ELSE /\ started' = TRUE
          /\ execHardfork' = HardforkBy(cursors["vm"])
          /\ hardfork' = HardforkBy(cursors["vm"])
          /\ sinceClose' = IF sinceClose = "closed" THEN "reopened" ELSE sinceClose
          /\ IF GenesisAtNumberZero
             THEN /\ stateRoots' = stateRoots \cup {StateRoot(Genesis)}
                  /\ vmStateRoot' = StateRoot(Genesis)
             ELSE UNCHANGED <<stateRoots, vmStateRoot>>
  /\ pc' = [pc EXCEPT ![p] = "op_exit"]
  /\ fr' = [fr EXCEPT ![p].result = "void", ![p].vmInit = ~OpenIsNoop]
  /\ UNCHANGED <<lock, running, shutdown, vmPromise, stateDBOpen, receiptVars, store>>
  /\ UNCHANGED <<config, probe, statsVm, statsInterval, switchMsgs>>

OpenExit(p) ==
  /\ pc[p] = "op_exit"
  /\ ReleaseGate(p, "done")
  /\ UNCHANGED <<flags, receiptVars, state, store>>
  /\ UNCHANGED <<config, probe, tags, sinceClose>>

(***************************************************************************)
(* stop (lines 875-895)                                                     *)
(***************************************************************************)
\* history: a run is in its loop and the vm cursor is below the canonical head
RunInLoop ==
  \E q \in Callers :
    /\ fr[q].op = "run"
    /\ pc[q] \in {"run_loop", "run_iter", "run_cb", "run_catch", "run_after"}
    /\ Number(cursors["vm"]) < Number(canonicalHead)

StopCall(p) ==
  /\ AtRest(p)
  /\ statsInterval' = FALSE
  /\ AcquireGate(p, [IdleFrame EXCEPT !.op = "stop", !.duringRun = RunInLoop],
                 "st_body1")
  /\ UNCHANGED <<flags, receiptVars, state, store>>
  /\ UNCHANGED <<config, probe, hardfork, execHardfork, statsVm, switchMsgs, sinceClose>>

\* super.stop() clears started
StopBody1(p) ==
  /\ pc[p] = "st_body1"
  /\ started' = FALSE
  /\ pc' = [pc EXCEPT ![p] = "st_exit1"]
  /\ UNCHANGED <<lock, fr, running, shutdown, vmPromise, stateDBOpen, receiptVars,
                 state, store>>
  /\ UNCHANGED <<config, probe, tags, sinceClose>>

StopExit1(p) ==
  /\ pc[p] = "st_exit1"
  /\ ReleaseGate(p, "st_mid")
  /\ UNCHANGED <<flags, receiptVars, state, store>>
  /\ UNCHANGED <<config, probe, tags, sinceClose>>

\* `if (this.vmPromise) await this.vmPromise`, then the second runWithLock
StopMid(p) ==
  /\ pc[p] = "st_mid"
  /\ IF vmPromise = "undefined"
     THEN AcquireGate(p, fr[p], "st_body2")
     ELSE /\ pc' = [pc EXCEPT ![p] = "st_await"]
          /\ fr' = [fr EXCEPT ![p].awaited = TRUE]
          /\ UNCHANGED lock
  /\ UNCHANGED <<flags, receiptVars, state, store>>
  /\ UNCHANGED <<config, probe, tags, sinceClose>>

StopAwait(p) ==
  /\ pc[p] = "st_await"
  /\ vmPromise # "pending"
  /\ AcquireGate(p, fr[p], "st_body2")
  /\ UNCHANGED <<flags, receiptVars, state, store>>
  /\ UNCHANGED <<config, probe, tags, sinceClose>>

StopBody2(p) ==
  /\ pc[p] = "st_body2"
  /\ vmPromise' = "undefined"
  /\ stateDBOpen' = FALSE
  /\ pc' = [pc EXCEPT ![p] = "st_exit2"]
  /\ fr' = [fr EXCEPT ![p].result = "true"]
  /\ sinceClose' = "closed"
  /\ UNCHANGED <<lock, started, running, shutdown, receiptVars, state, store>>
  /\ UNCHANGED <<config, probe, tags>>

StopExit2(p) ==
  /\ pc[p] = "st_exit2"
  /\ ReleaseGate(p, "done")
  /\ UNCHANGED <<flags, receiptVars, state, store>>
  /\ UNCHANGED <<config, probe, tags, sinceClose>>

(***************************************************************************)
(* vm.runBlock({block, root, ...}): fails when the state DB lacks `root`,   *)
(* may fail on the block itself, and otherwise leaves the VM on the block's *)
(* state root.                                                              *)
(***************************************************************************)
RunBlockOutcomes(root) ==
  IF HasStateRoot(root) THEN {"ok", "vm error"} ELSE {"does not contain state root"}

(***************************************************************************)
(* runWithoutSetHead (lines 409-460)                                        *)
(***************************************************************************)
\* line 416: the early return
RwshReturnsEarly(blocking) == (~blocking /\ running) \/ ~started \/ shutdown

RwshCall(p, b, rc, blocking, skipBc) ==
  /\ AtRest(p)
  /\ LET f == [IdleFrame EXCEPT !.op = "rwsh", !.blk = b, !.rc = rc,
                                !.blocking = blocking, !.skipBc = skipBc]
     IN IF RwshReturnsEarly(blocking)
        THEN /\ pc' = [pc EXCEPT ![p] = "done"]
             /\ fr' = [fr EXCEPT ![p] = [f EXCEPT !.result = "false"]]
             /\ UNCHANGED lock
        ELSE AcquireGate(p, f, "rw_begin")
  /\ UNCHANGED <<flags, receiptVars, state, store>>
  /\ UNCHANGED <<config, probe, tags, sinceClose>>

\* a stash that skips an empty receipt list
StashNonEmpty(h, receipts) ==
  IF receipts = <<>> THEN pendingReceipts ELSE MapSet(pendingReceipts, h, receipts)

\* lines 435-438: `this.pendingReceipts?.set(bytesToHex(block.hash()), receipts)`
StashReceipts(h, receipts) == MapSet(pendingReceipts, h, receipts)

\* a test of the receipts parameter that always finds it undefined
ReceiptsUndefinedAlways(rc) == TRUE

\* line 425: `receipts === undefined`
ReceiptsUndefined(rc) == rc = Undefined

\* lines 422-438 with receipts supplied: no execution, the stash is immediate;
\* without receipts the body goes on to vm.runBlock
RwshBegin(p) ==
  /\ pc[p] = "rw_begin"
  /\ IF ReceiptsUndefined(fr[p].rc)
     THEN /\ running' = TRUE
          /\ pc' = [pc EXCEPT ![p] = "rw_exec"]
          /\ UNCHANGED <<pendingReceipts, stashed>>
     ELSE /\ pendingReceipts' = StashReceipts(fr[p].blk, The(fr[p].rc))
          /\ stashed' = stashed \cup {fr[p].blk}
          /\ running' = ~fr[p].skipBc
          /\ pc' = [pc EXCEPT ![p] = IF fr[p].skipBc THEN "rw_exit" ELSE "rw_batch"]
  /\ fr' = [fr EXCEPT ![p].result = IF pc'[p] = "rw_exit" THEN "true" ELSE @]
  /\ UNCHANGED <<lock, started, shutdown, vmPromise, stateDBOpen, receiptIndex,
                 inFlight, executedUnseen, state, store>>
  /\ UNCHANGED <<config, probe, tags, sinceClose>>

\* a body without the finally: running stays set when the body throws
RunningWithoutFinally == running

\* lines 455-457: `finally { this.running = false }`, also when the body threw
RunningAfterFinally == FALSE

\* lines 427-438: vm.runBlock on the parent's state root, then the stash; a
\* failure leaves through the finally of line 455
RwshExec(p) ==
  /\ pc[p] = "rw_exec"
  /\ \E out \in RunBlockOutcomes(StateRoot(ParentHash(fr[p].blk))) :
       IF out = "ok"
       THEN /\ stateRoots' = stateRoots \cup {StateRoot(fr[p].blk)}
            /\ vmStateRoot' = StateRoot(fr[p].blk)
            /\ pendingReceipts' = StashReceipts(fr[p].blk, RunBlockReceipts(fr[p].blk))
            /\ stashed' = stashed \cup {fr[p].blk}
            /\ executedUnseen' = executedUnseen \cup {fr[p].blk}
            /\ running' = ~fr[p].skipBc
            /\ pc' = [pc EXCEPT ![p] = IF fr[p].skipBc THEN "rw_exit" ELSE "rw_batch"]
            /\ fr' = [fr EXCEPT ![p].ranBlock = @ + 1,
                                ![p].result = IF fr[p].skipBc THEN "true" ELSE @]
       ELSE /\ running' = RunningAfterFinally
            /\ pc' = [pc EXCEPT ![p] = "rw_exit"]
            /\ fr' = [fr EXCEPT ![p].ranBlock = @ + 1, ![p].result = "threw",
                                ![p].error = out]
            /\ UNCHANGED <<pendingReceipts, stashed, executedUnseen, state>>
  /\ UNCHANGED <<lock, started, shutdown, vmPromise, stateDBOpen, receiptIndex,
                 inFlight, store>>
  /\ UNCHANGED <<config, probe, tags, sinceClose>>

\* DBSaveLookups with the number->hash op
SkipNumIndexOff == FALSE

\* lines 447-453: DBSaveLookups(hash, num, skipNumIndex = true) leaves the
\* number->hash mapping alone
SkipNumIndex == TRUE

\* the number->hash mapping after DBSaveLookups(hash, num, skipNumIndex)
SaveLookups(h, skipNumIndex) ==
  IF skipNumIndex THEN canonical ELSE [canonical EXCEPT ![Number(h)] = h]

\* lines 440-457: the batch DBSetTD, DBSetBlockOrHeader, DBSetHashToNumber,
\* DBSaveLookups, then the finally
RwshBatch(p) ==
  /\ pc[p] = "rw_batch"
  /\ tdRec' = tdRec \cup {fr[p].blk}
  /\ blockRec' = blockRec \cup {fr[p].blk}
  /\ hashToNumber' = hashToNumber \cup {fr[p].blk}
  /\ canonical' = SaveLookups(fr[p].blk, SkipNumIndex)
  /\ UNCHANGED <<canonicalHead, cursors>>
  /\ running' = FALSE
  /\ pc' = [pc EXCEPT ![p] = "rw_exit"]
  /\ fr' = [fr EXCEPT ![p].result = "true", ![p].wrote = @ \cup StoreWrites]
  /\ UNCHANGED <<lock, started, shutdown, vmPromise, stateDBOpen, receiptVars, state>>
  /\ UNCHANGED <<config, probe, tags, sinceClose>>

RwshExit(p) ==
  /\ pc[p] = "rw_exit"
  /\ ReleaseGate(p, "done")
  /\ UNCHANGED <<flags, receiptVars, state, store>>
  /\ UNCHANGED <<config, probe, tags, sinceClose>>

(***************************************************************************)
(* setHead (lines 467-520)                                                  *)
(***************************************************************************)
\* line 471: the early return
SetHeadReturnsEarly == ~started \/ shutdown

SetHeadCall(p, blocks, safe, fin) ==
  /\ AtRest(p)
  /\ LET f == [IdleFrame EXCEPT !.op = "setHead", !.blocks = blocks, !.safe = safe,
                                !.fin = fin]
     IN IF SetHeadReturnsEarly
        THEN /\ pc' = [pc EXCEPT ![p] = "done"]
             /\ fr' = [fr EXCEPT ![p] = [f EXCEPT !.result = "false"]]
             /\ UNCHANGED lock
        ELSE AcquireGate(p, f, "sh_root")
  /\ UNCHANGED <<flags, receiptVars, state, store>>
  /\ UNCHANGED <<config, probe, tags, sinceClose>>

\* setHead without the state-root requirement
RootCheckAlways(vmHeadBlock) == TRUE

\* line 480: the state root of the new vm head must be in the state DB
RootCheckPasses(vmHeadBlock) == HasStateRoot(StateRoot(vmHeadBlock))

ShRoot(p) ==
  /\ pc[p] = "sh_root"
  /\ LET vmHeadBlock == Last(fr[p].blocks) IN
     IF RootCheckPasses(vmHeadBlock)
     THEN /\ pc' = [pc EXCEPT ![p] = "sh_put"]
          /\ fr' = [fr EXCEPT ![p].hadRoot = HasStateRoot(StateRoot(vmHeadBlock))]
     ELSE /\ pc' = [pc EXCEPT ![p] = "sh_exit"]
          /\ fr' = [fr EXCEPT ![p].hadRoot = HasStateRoot(StateRoot(vmHeadBlock)),
                              ![p].result = "threw",
                              ![p].error = "stateRoot not found"]
  /\ UNCHANGED <<lock, flags, receiptVars, state, store>>
  /\ UNCHANGED <<config, probe, tags, sinceClose>>

\* putBlocks left to emit the chain-updated event itself
SkipUpdateEmitOff == FALSE

\* line 491: putBlocks(blocks, fromEngine = true, skipUpdateEmit = true)
SkipUpdateEmit == TRUE

\* Chain.putBlocks: each block in order is stored and becomes the canonical
\* head; the result is the number->hash mapping
RECURSIVE CanonicalAfterPutBlocks(_, _)
CanonicalAfterPutBlocks(canon, blocks) ==
  IF blocks = <<>> THEN canon
  ELSE CanonicalAfterPutBlocks(CanonicalAfterPut(Head(blocks)), Tail(blocks))

\* Chain.putBlocks calls update(emitOnLast && !skipUpdateEmit) after each block:
\* the chain-updated events of the whole call
PutBlocksEmits(blocks, skipUpdateEmit) == ChainUpdate(~skipUpdateEmit)

\* a drain that takes an empty receipt list for no receipts
TruthyNonEmpty(receipts) == receipts # Undefined /\ receipts # Some(<<>>)

\* line 494: `if (receipts)`: an array, also an empty one, is truthy;
\* undefined is not
Truthy(receipts) == receipts # Undefined

\* lines 492-498: the blocks of the list whose pending receipts are drained
Drainable(blocks) ==
  {h \in Range(blocks) : Truthy(MapGet(pendingReceipts, h))}

\* lines 490-498: putBlocks, then the drain of the pending receipts
ShPut(p) ==
  /\ pc[p] = "sh_put"
  /\ LET blocks == fr[p].blocks
         drain == Drainable(blocks)
     IN /\ blockRec' = blockRec \cup Range(blocks)
        /\ tdRec' = tdRec \cup Range(blocks)
        /\ hashToNumber' = hashToNumber \cup Range(blocks)
        /\ canonical' = CanonicalAfterPutBlocks(canonical, blocks)
        /\ canonicalHead' = Last(blocks)
        /\ UNCHANGED cursors
        /\ inFlight' = inFlight \cup {<<h, pendingReceipts[h]>> : h \in drain}
        /\ pendingReceipts' = [h \in (DOMAIN pendingReceipts) \ drain |-> pendingReceipts[h]]
        /\ stashed' = stashed \ Range(blocks)
        /\ executedUnseen' = executedUnseen \ Range(blocks)
        /\ fr' = [fr EXCEPT ![p].drained = [h \in drain |-> pendingReceipts[h]],
                            ![p].promoted =
                               {h \in Range(blocks) :
                                  /\ ~IsCanonical(h)
                                  /\ CanonicalAfterPutBlocks(canonical, blocks)[Number(h)] = h},
                            ![p].emits = @ + PutBlocksEmits(blocks, SkipUpdateEmit),
                            ![p].wrote = @ \cup StoreWrites]
  /\ pc' = [pc EXCEPT ![p] = "sh_canon"]
  /\ UNCHANGED <<lock, flags, receiptIndex, state>>
  /\ UNCHANGED <<config, probe, tags, sinceClose>>

\* line 475: the pointers the canonicality check walks over
ChainPointers(blocks, safe, fin) == {Last(blocks)}

\* the blocks the call names: the new vm head, safe and finalized if provided
NamedBlocks(blocks, safe, fin) == {Last(blocks)} \cup safe \cup fin

\* a setHead that moves the vm cursor before it checks canonicality
ShCanonCursorFirst(p) ==
  /\ pc[p] = "sh_canon"
  /\ cursors' = [cursors EXCEPT !["vm"] = Last(fr[p].blocks)]
  /\ LET f == fr[p]
         off == \E h \in NamedBlocks(f.blocks, f.safe, f.fin) : ~IsCanonical(h)
     IN IF \E h \in ChainPointers(f.blocks, f.safe, f.fin) : ~IsCanonical(h)
        THEN /\ pc' = [pc EXCEPT ![p] = "sh_exit"]
             /\ fr' = [fr EXCEPT ![p].namedOff = off, ![p].result = "threw",
                                 ![p].error = "not in canonical chain",
                                 ![p].wrote = @ \cup {"vm"}]
        ELSE /\ pc' = [pc EXCEPT ![p] = "sh_heads"]
             /\ fr' = [fr EXCEPT ![p].namedOff = off]
  /\ UNCHANGED <<lock, flags, receiptVars, state, blockRec, tdRec, hashToNumber,
                 canonical, canonicalHead>>
  /\ UNCHANGED <<config, probe, tags, sinceClose>>

\* lines 500-509: the canonicality check
ShCanon(p) ==
  /\ pc[p] = "sh_canon"
  /\ LET f == fr[p]
         off == \E h \in NamedBlocks(f.blocks, f.safe, f.fin) : ~IsCanonical(h)
     IN IF \E h \in ChainPointers(f.blocks, f.safe, f.fin) : ~IsCanonical(h)
        THEN /\ pc' = [pc EXCEPT ![p] = "sh_exit"]
             /\ fr' = [fr EXCEPT ![p].namedOff = off, ![p].result = "threw",
                                 ![p].error = "not in canonical chain"]
        ELSE /\ pc' = [pc EXCEPT ![p] = "sh_heads"]
             /\ fr' = [fr EXCEPT ![p].namedOff = off]
  /\ UNCHANGED <<lock, flags, receiptVars, state, store>>
  /\ UNCHANGED <<config, probe, tags, sinceClose>>

\* cursor updates that move safe and finalized to the vm head when they are
\* not provided
CursorsFollowHead(blocks, safe, fin) ==
  [c \in CursorNames |->
     CASE c = "vm" -> Last(blocks)
       [] c = "safe" -> IF safe # Undefined THEN The(safe) ELSE Last(blocks)
       [] c = "finalized" -> IF fin # Undefined THEN The(fin) ELSE Last(blocks)]

\* lines 510-516: the iterator heads after the three setIteratorHead calls
CursorsAfterSetHead(blocks, safe, fin) ==
  [c \in CursorNames |->
     CASE c = "vm" -> Last(blocks)
       [] c = "safe" -> IF safe # Undefined THEN The(safe) ELSE cursors[c]
       [] c = "finalized" -> IF fin # Undefined THEN The(fin) ELSE cursors[c]]

ShHeads(p) ==
  /\ pc[p] = "sh_heads"
  /\ cursors' = CursorsAfterSetHead(fr[p].blocks, fr[p].safe, fr[p].fin)
  /\ UNCHANGED <<blockRec, tdRec, hashToNumber, canonical, canonicalHead>>
  /\ pc' = [pc EXCEPT ![p] = "sh_update"]
  /\ fr' = [fr EXCEPT ![p].wrote = @ \cup StoreWrites]
  /\ UNCHANGED <<lock, flags, receiptVars, state>>
  /\ UNCHANGED <<config, probe, tags, sinceClose>>

\* line 517: chain.update(true) signals chain-updated
ShUpdate(p) ==
  /\ pc[p] = "sh_update"
  /\ pc' = [pc EXCEPT ![p] = "sh_exit"]
  /\ fr' = [fr EXCEPT ![p].emits = @ + ChainUpdate(TRUE), ![p].result = "true"]
  /\ UNCHANGED <<lock, flags, receiptVars, state, store>>
  /\ UNCHANGED <<config, probe, tags, sinceClose>>

ShExit(p) ==
  /\ pc[p] = "sh_exit"
  /\ ReleaseGate(p, "done")
  /\ UNCHANGED <<flags, receiptVars, state, store>>
  /\ UNCHANGED <<config, probe, tags, sinceClose>>

(***************************************************************************)
(* run (lines 527-830)                                                      *)
(***************************************************************************)
\* line 528: the early return
RunReturnsEarly == running \/ ~started \/ shutdown

\* lines 527-533: run returns 0 at once or goes for the gate; f is its frame
RunInvoke(p, f) ==
  IF RunReturnsEarly
  THEN /\ pc' = [pc EXCEPT ![p] = "done"]
       /\ fr' = [fr EXCEPT ![p] = [f EXCEPT !.result = "number"]]
       /\ UNCHANGED lock
  ELSE AcquireGate(p, f, "run_begin")

RunCall(p, loop, onlyBatched) ==
  /\ AtRest(p)
  /\ RunInvoke(p, [IdleFrame EXCEPT !.op = "run", !.loop = loop,
                                   !.onlyBatched = onlyBatched])
  /\ UNCHANGED <<flags, receiptVars, state, store>>
  /\ UNCHANGED <<config, probe, tags, sinceClose>>

\* history: the block after the vm cursor is stored and the state DB lacks the
\* state root of its parent, the block at the cursor
SuccessorMissesParentRoot ==
  /\ Number(cursors["vm"]) + 1 \in Numbers
  /\ CanonicalHashAt(Number(cursors["vm"]) + 1) # NoHash
  /\ ParentHash(CanonicalHashAt(Number(cursors["vm"]) + 1)) = cursors["vm"]
  /\ ~HasStateRoot(StateRoot(cursors["vm"]))

\* lines 534-547
RunBegin(p) ==
  /\ pc[p] = "run_begin"
  /\ running' = TRUE
  /\ pc' = [pc EXCEPT ![p] = "run_loop"]
  /\ fr' = [fr EXCEPT ![p].startHeadBlock = cursors["vm"],
                      ![p].canonicalHead = canonicalHead]
  /\ probe' = IF probe.phase = "repaired" THEN [probe EXCEPT !.phase = "second"]
              ELSE IF SuccessorMissesParentRoot
                   THEN [phase |-> "first", at |-> cursors["vm"]]
                   ELSE NoProbe
  /\ UNCHANGED <<lock, started, shutdown, vmPromise, stateDBOpen, receiptVars, state,
                 store>>
  /\ UNCHANGED <<config, tags, sinceClose>>

\* a loop condition that never allows a second pass
RunLoopConditionOnePass(f) ==
  /\ started
  /\ ~shutdown
  /\ (~f.onlyBatched
        \/ Number(f.canonicalHead) - Number(f.startHeadBlock) >= numBlocksPerIteration)
  /\ f.numKind = "undefined"
  /\ f.startHeadBlock # f.canonicalHead

\* lines 562-572: the condition of the outer loop
RunLoopCondition(f) ==
  /\ started
  /\ ~shutdown
  /\ (~f.onlyBatched
        \/ Number(f.canonicalHead) - Number(f.startHeadBlock) >= numBlocksPerIteration)
  /\ (f.numKind = "undefined"
        \/ (f.loop /\ f.numKind = "number" /\ f.numExecuted = numBlocksPerIteration))
  /\ f.startHeadBlock # f.canonicalHead

\* line 825: `return numExecuted ?? 0`
Returned(f) == IF f.numKind = "number" THEN f.numExecuted ELSE 0

\* lines 562-578 and 825-828: another pass of the iterator, or the return
RunLoop(p) ==
  /\ pc[p] = "run_loop"
  /\ IF RunLoopCondition(fr[p])
     THEN /\ vmPromise' = "pending"
          /\ pc' = [pc EXCEPT ![p] = "run_iter"]
          /\ fr' = [fr EXCEPT ![p].headBlock = Undefined, ![p].parentState = Undefined,
                              ![p].errorBlock = Undefined, ![p].iterCount = 0,
                              ![p].iterReorg = FALSE, ![p].passes = Bump(@)]
          /\ UNCHANGED running
     ELSE /\ running' = FALSE
          /\ pc' = [pc EXCEPT ![p] = "run_exit"]
          /\ fr' = [fr EXCEPT ![p].result = "number",
                              ![p].returned = Returned(fr[p])]
          /\ UNCHANGED vmPromise
  /\ UNCHANGED <<lock, started, shutdown, stateDBOpen, receiptVars, state, store>>
  /\ UNCHANGED <<config, probe, tags, sinceClose>>

\* the nearest ancestor of h (h included) that is on the canonical chain
RECURSIVE CanonicalAncestor(_)
CanonicalAncestor(h) ==
  IF h = NoHash \/ IsCanonical(h) THEN h ELSE CanonicalAncestor(ParentHash(h))

\* an iterator without a limit on the blocks of a pass
MaxBlocksUnbounded == MaxHeight + 1

\* line 675: the maxBlocks handed to the iterator
MaxBlocks == numBlocksPerIteration

\* Blockchain.iterator("vm", onBlock, maxBlocks, releaseLock): the next block
\* in canonical order after the cursor, with the reorg flag when the cursor
\* had to be rewound to a common ancestor; the pass ends after maxBlocks
\* blocks or at the canonical head and resolves with the count
RunIter(p) ==
  /\ pc[p] = "run_iter"
  /\ LET from == CanonicalAncestor(cursors["vm"])
         n == Number(from) + 1
         more == /\ fr[p].iterCount < MaxBlocks
                 /\ n \in Numbers
                 /\ CanonicalHashAt(n) # NoHash
     IN IF more
        THEN /\ pc' = [pc EXCEPT ![p] = "run_cb"]
             /\ fr' = [fr EXCEPT ![p].iterBlock = CanonicalHashAt(n),
                                 ![p].iterReorg = (from # cursors["vm"]),
                                 ![p].iterStopped = (shutdown \/ ~started)]
             /\ cursors' = [cursors EXCEPT !["vm"] = from]
             /\ UNCHANGED vmPromise
        ELSE /\ pc' = [pc EXCEPT ![p] = "run_after"]
             /\ fr' = [fr EXCEPT ![p].numKind = "number",
                                 ![p].numExecuted = fr[p].iterCount]
             /\ vmPromise' = "resolved"
             /\ UNCHANGED cursors
  /\ UNCHANGED <<lock, started, running, shutdown, stateDBOpen, receiptVars, state,
                 blockRec, tdRec, hashToNumber, canonical, canonicalHead>>
  /\ UNCHANGED <<config, probe, tags, sinceClose>>

\* a flag forced to true on the first call of a pass as on a reorg, and
\* computed on every other call
ClearCacheForced(f, parentState) ==
  IF f.headBlock = Undefined \/ f.iterReorg THEN TRUE
  ELSE vmStateRoot # parentState

\* lines 583-599: clearCache is true on a reorg, on the first call of a pass
\* without one it tells whether the VM's state root differs from parentState,
\* and on a continuation it is false
ClearCache(f, parentState) ==
  IF f.headBlock = Undefined \/ f.iterReorg
  THEN IF f.iterReorg THEN TRUE ELSE vmStateRoot # parentState
  ELSE FALSE

\* a callback that never finds the hardfork changed
HardforkSwitchNever(h) == FALSE

\* lines 611-616: the block's hardfork differs from this.hardfork
HardforkSwitch(h) == HardforkBy(h) # hardfork

\* lines 580-673: the per-block callback; on success the iterator moves the
\* cursor to the block
RunCallback(p) ==
  /\ pc[p] = "run_cb"
  /\ LET f == fr[p]
         block == f.iterBlock
         fresh == f.headBlock = Undefined \/ f.iterReorg
         parentState == IF fresh THEN StateRoot(ParentHash(block)) ELSE The(f.parentState)
         headBlock == IF fresh THEN ParentHash(block) ELSE The(f.headBlock)
         g == [f EXCEPT !.clearCache = ClearCache(f, parentState),
                        !.cbHead = Some(headBlock),
                        !.cbParentState = Some(parentState),
                        !.cbFirst = (f.iterCount = 0),
                        !.lastRun = IF started THEN Some(block) ELSE f.lastRun]
     IN \E out \in IF ~started THEN {"Execution stopped"} ELSE RunBlockOutcomes(parentState) :
          IF out = "ok"
          THEN /\ stateRoots' = stateRoots \cup {StateRoot(block)}
               /\ vmStateRoot' = StateRoot(block)
               /\ inFlight' = SaveReceipts(block, RunBlockReceipts(block))
               /\ executedUnseen' = executedUnseen \cup {block}
               /\ cursors' = [cursors EXCEPT !["vm"] = block]
               /\ pc' = [pc EXCEPT ![p] = "run_iter"]
               /\ fr' = [fr EXCEPT ![p] = g,
                                   ![p].lastOk = Some(block),
                                   ![p].headBlock = Some(block),
                                   ![p].parentState = Some(StateRoot(block)),
                                   ![p].iterCount = @ + 1,
                                   ![p].ranBlock = Bump(@),
                                   ![p].executed = Bump(@)]
          ELSE /\ pc' = [pc EXCEPT ![p] = "run_catch"]
               /\ fr' = [fr EXCEPT ![p] = g,
                                   ![p].headBlock = Some(headBlock),
                                   ![p].parentState = Some(parentState),
                                   ![p].errorBlock = Some(block),
                                   ![p].error = out,
                                   ![p].ranBlock = IF started THEN Bump(@) ELSE @,
                                   ![p].failures = Bump(@)]
               /\ UNCHANGED <<state, inFlight, executedUnseen, cursors>>
  /\ hardfork' = IF HardforkSwitch(fr[p].iterBlock)
                 THEN HardforkBy(fr[p].iterBlock) ELSE hardfork
  /\ execHardfork' = IF HardforkSwitch(fr[p].iterBlock)
                     THEN HardforkBy(fr[p].iterBlock) ELSE execHardfork
  /\ switchMsgs' = IF HardforkSwitch(fr[p].iterBlock)
                   THEN Bump(switchMsgs) ELSE switchMsgs
  /\ statsVm' = IF started THEN "vm" ELSE statsVm
  /\ UNCHANGED <<lock, flags, pendingReceipts, receiptIndex, stashed,
                 blockRec, tdRec, hashToNumber, canonical, canonicalHead>>
  /\ UNCHANGED <<config, probe, statsInterval, sinceClose>>

\* the iterator fails outside the callback's try block: a read of the block
\* store fails between two blocks, or the callback fails to load the parent
\* (line 584) before it has recorded an errorBlock
RunIterFail(p) ==
  /\ pc[p] \in {"run_iter", "run_cb"}
  /\ pc' = [pc EXCEPT ![p] = "run_catch"]
  /\ fr' = [fr EXCEPT ![p].error = "iterator failed"]
  /\ UNCHANGED <<lock, flags, receiptVars, state, store>>
  /\ UNCHANGED <<config, probe, tags, sinceClose>>

\* a trigger that does not look at the error message
ErrorBlockAboveOne(f) == Number(The(f.errorBlock)) > 1

\* lines 721-724: the error that triggers the backstep
IsMissingStateRoot(f) ==
  f.error = "does not contain state root" /\ Number(The(f.errorBlock)) > 1

\* a backstep that does not look at the state DB
BackStepUnguarded(f) == f.headBlock # Undefined

\* a backstep taken when the state DB lacks headBlock's state root
BackStepWithoutRoot(f) ==
  /\ f.headBlock # Undefined
  /\ ~HasStateRoot(StateRoot(The(f.headBlock)))

\* lines 735-744: headBlock is defined and the state DB has its state root
BackStepGuard(f) ==
  /\ f.headBlock # Undefined
  /\ HasStateRoot(StateRoot(The(f.headBlock)))

\* a backstep that starts over from the genesis block
BackStepToGenesis(f) == Genesis

\* line 750: the backstep sets the vm cursor to headBlock.header.parentHash
BackStepTarget(f) == ParentHash(The(f.headBlock))

\* lines 768-771: `Number(errorBlock.header.number - startHeadBlock.header.number)`
ActualExecuted(f) == Number(The(f.errorBlock)) - Number(f.startHeadBlock)

\* a handler that resolves with a number whether or not a block has failed
PassResultNumber(f) == "number"

\* lines 681 and 771-775: the handler resolves with a number when the
\* callback has recorded an errorBlock, and with null when it has not
PassResult(f) == IF f.errorBlock # Undefined THEN "number" ELSE "null"

\* lines 680-776: the handler of a failed pass
RunCatch(p) ==
  /\ pc[p] = "run_catch"
  /\ LET f == fr[p]
         hasErrorBlock == f.errorBlock # Undefined
         backStep == hasErrorBlock /\ IsMissingStateRoot(f) /\ BackStepGuard(f)
     IN /\ cursors' = IF backStep
                      THEN [cursors EXCEPT !["vm"] = BackStepTarget(f)]
                      ELSE cursors
        /\ fr' = [fr EXCEPT ![p].numKind = PassResult(f),
                            ![p].numExecuted = IF hasErrorBlock THEN ActualExecuted(f)
                                               ELSE @,
                            ![p].vmErrors = IF hasErrorBlock THEN Bump(@) ELSE @,
                            ![p].backSteps = IF backStep THEN Bump(@) ELSE @]
  /\ vmPromise' = "resolved"
  /\ pc' = [pc EXCEPT ![p] = "run_after"]
  /\ UNCHANGED <<lock, started, running, shutdown, stateDBOpen, receiptVars, state,
                 blockRec, tdRec, hashToNumber, canonical, canonicalHead>>
  /\ UNCHANGED <<config, probe, tags, sinceClose>>

\* lines 778-822: the heads are read again after the pass
RunAfter(p) ==
  /\ pc[p] = "run_after"
  /\ pc' = [pc EXCEPT ![p] = "run_loop"]
  /\ fr' = IF fr[p].numKind # "null"
           THEN [fr EXCEPT ![p].startHeadBlock = cursors["vm"],
                           ![p].canonicalHead = canonicalHead]
           ELSE fr
  /\ UNCHANGED <<lock, flags, receiptVars, state, store>>
  /\ UNCHANGED <<config, probe, tags, sinceClose>>

RunExit(p) ==
  /\ pc[p] = "run_exit"
  /\ ReleaseGate(p, "done")
  /\ probe' = CASE probe.phase = "first" ->
                     IF HasStateRoot(StateRoot(probe.at)) THEN NoProbe
                     ELSE [probe EXCEPT !.phase = "firstDone"]
                [] probe.phase = "second" -> [probe EXCEPT !.phase = "secondDone"]
                [] OTHER -> probe
  /\ UNCHANGED <<flags, receiptVars, state, store>>
  /\ UNCHANGED <<config, tags, sinceClose>>

(***************************************************************************)
(* start (lines 835-870).  The run it fires goes on in the background: the   *)
(* caller's thread stands for it once start has returned true.              *)
(***************************************************************************)
\* lines 843-845: `if (this.running || !this.started) return false`
StartReturnsEarly == running \/ ~started

\* lines 836-845: the stats timer and the entry test
StartCall(p) ==
  /\ AtRest(p)
  /\ statsInterval' = TRUE
  /\ IF StartReturnsEarly
     THEN /\ pc' = [pc EXCEPT ![p] = "done"]
          /\ fr' = [fr EXCEPT ![p] = [IdleFrame EXCEPT !.op = "start",
                                                       !.result = "false"]]
     ELSE /\ pc' = [pc EXCEPT ![p] = "start_vmhead"]
          /\ fr' = [fr EXCEPT ![p] = [IdleFrame EXCEPT !.op = "start"]]
  /\ UNCHANGED <<lock, flags, receiptVars, state, store>>
  /\ UNCHANGED <<config, probe, hardfork, execHardfork, statsVm, switchMsgs, sinceClose>>

\* line 850: `await blockchain.getIteratorHead()`
StartVmHead(p) ==
  /\ pc[p] = "start_vmhead"
  /\ pc' = [pc EXCEPT ![p] = "start_canonical"]
  /\ fr' = [fr EXCEPT ![p].startHeadBlock = cursors["vm"]]
  /\ UNCHANGED <<lock, flags, receiptVars, state, store>>
  /\ UNCHANGED <<config, probe, tags, sinceClose>>

\* line 854: `await blockchain.getCanonicalHeadBlock()`
StartCanonical(p) ==
  /\ pc[p] = "start_canonical"
  /\ pc' = [pc EXCEPT ![p] = "start_fire"]
  /\ fr' = [fr EXCEPT ![p].canonicalHead = canonicalHead]
  /\ UNCHANGED <<lock, flags, receiptVars, state, store>>
  /\ UNCHANGED <<config, probe, tags, sinceClose>>

\* a start that does not look at config.execution
StartFiresWithoutExecution(f) ==
  /\ ~GteParis(execHardfork)
  /\ Number(f.startHeadBlock) < Number(f.canonicalHead)

\* lines 859-863: the condition under which start fires the run
StartFires(f) ==
  /\ ~GteParis(execHardfork)
  /\ execution
  /\ Number(f.startHeadBlock) < Number(f.canonicalHead)

\* lines 859-869: `void this.run(true, true)` or the skip, and `return true`
StartFire(p) ==
  /\ pc[p] = "start_fire"
  /\ IF StartFires(fr[p])
     THEN RunInvoke(p, [IdleFrame EXCEPT !.op = "run", !.loop = TRUE,
                                        !.onlyBatched = TRUE, !.fired = TRUE])
     ELSE /\ pc' = [pc EXCEPT ![p] = "done"]
          /\ fr' = [fr EXCEPT ![p].result = "true"]
          /\ UNCHANGED lock
  /\ UNCHANGED <<flags, receiptVars, state, store>>
  /\ UNCHANGED <<config, probe, tags, sinceClose>>

(***************************************************************************)
(* executeBlocks (lines 906-971), the debug replay.  It takes no gate.      *)
(* vm.shallowCopy(false) gives a VM with its own common and caches on the   *)
(* same state DB and block store.                                           *)
(***************************************************************************)
\* a replay that switches the engine's hardfork tag as the run loop does
TagFollowsReplay(h) == HardforkBy(h)

\* lines 919-923: setHardforkBy acts on the copy's common; this.hardfork is
\* not assigned
TagAfterReplay(h) == hardfork

\* line 908: the shallow copy
ExecuteBlocksCall(p, first, last, txHashes) ==
  /\ AtRest(p)
  /\ pc' = [pc EXCEPT ![p] = "eb_block"]
  /\ fr' = [fr EXCEPT ![p] = [IdleFrame EXCEPT !.op = "executeBlocks",
                                               !.first = first, !.last = last,
                                               !.txHashes = txHashes,
                                               !.blockNumber = first,
                                               !.copyHardfork = execHardfork,
                                               !.snap = Snapshot]]
  /\ UNCHANGED <<lock, flags, receiptVars, state, store>>
  /\ UNCHANGED <<config, probe, tags, sinceClose>>

\* lines 910-969: one turn of the loop over the block numbers; getBlock
\* throws for a number or hash without a block, vm.runBlock for a missing
\* root or a bad block, and nothing catches
ExecuteBlocksBlock(p) ==
  /\ pc[p] = "eb_block"
  /\ LET f == fr[p]
         n == f.blockNumber
         block == IF n \in Numbers THEN CanonicalHashAt(n) ELSE NoHash
         found == block # NoHash /\ ParentHash(block) \in blockRec
     IN IF n > f.last
        THEN /\ pc' = [pc EXCEPT ![p] = "done"]
             /\ fr' = [fr EXCEPT ![p].result = "void"]
             /\ UNCHANGED <<state, hardfork, statsVm>>
        ELSE IF ~found
        THEN /\ pc' = [pc EXCEPT ![p] = "done"]
             /\ fr' = [fr EXCEPT ![p].result = "threw", ![p].error = "not found"]
             /\ UNCHANGED <<state, hardfork, statsVm>>
        ELSE IF Len(f.txHashes) = 0
        THEN /\ statsVm' = "copy"
             /\ hardfork' = TagAfterReplay(block)
             /\ \E out \in RunBlockOutcomes(StateRoot(ParentHash(block))) :
                  IF out = "ok"
                  THEN /\ stateRoots' = stateRoots \cup {StateRoot(block)}
                       /\ pc' = pc
                       /\ fr' = [fr EXCEPT ![p].blockNumber = n + 1,
                                           ![p].copyHardfork = HardforkBy(block),
                                           ![p].ranBlock = Bump(@),
                                           ![p].executed = Bump(@)]
                  ELSE /\ pc' = [pc EXCEPT ![p] = "done"]
                       /\ fr' = [fr EXCEPT ![p].result = "threw", ![p].error = out,
                                           ![p].copyHardfork = HardforkBy(block),
                                           ![p].ranBlock = Bump(@)]
                       /\ UNCHANGED stateRoots
             /\ UNCHANGED vmStateRoot
        ELSE /\ pc' = pc
             /\ fr' = [fr EXCEPT ![p].blockNumber = n + 1,
                                 ![p].copyHardfork = HardforkBy(block)]
             /\ hardfork' = TagAfterReplay(block)
             /\ UNCHANGED <<state, statsVm>>
  /\ UNCHANGED <<lock, flags, receiptVars, store>>
  /\ UNCHANGED <<config, probe, execHardfork, statsInterval, switchMsgs, sinceClose>>

(***************************************************************************)
(* The surroundings of the engine.                                          *)
(***************************************************************************)
\* a saveReceipts write lands in the receipt index
ReceiptsLand(w) ==
  /\ w \in inFlight
  /\ inFlight' = inFlight \ {w}
  /\ receiptIndex' = MapSet(receiptIndex, w[1], w[2])
  /\ UNCHANGED <<lock, flags, pendingReceipts, stashed, executedUnseen, state, store, pc, fr>>
  /\ UNCHANGED <<config, probe, tags, sinceClose>>

\* another producer (the sync service) puts a block whose parent is stored
\* into the shared block store, outside the execution gate
StorePutBlock(h) ==
  /\ h # Genesis
  /\ ParentHash(h) \in blockRec
  /\ canonicalHead # h
  /\ blockRec' = blockRec \cup {h}
  /\ tdRec' = tdRec \cup {h}
  /\ hashToNumber' = hashToNumber \cup {h}
  /\ canonical' = CanonicalAfterPut(h)
  /\ canonicalHead' = h
  /\ UNCHANGED <<cursors, lock, flags, receiptVars, state, pc, fr>>
  /\ UNCHANGED <<config, probe, tags, sinceClose>>

\* the state DB loses the state root of the block at the vm cursor (pruning,
\* or a deletion from outside the engine) while no call is under way
DeleteRoot ==
  /\ \A p \in Callers : AtRest(p)
  /\ HasStateRoot(StateRoot(cursors["vm"]))
  /\ stateRoots' = stateRoots \ {StateRoot(cursors["vm"])}
  /\ probe' = IF probe.phase \in {"firstDone", "repaired", "second"} THEN NoProbe
              ELSE probe
  /\ UNCHANGED <<vmStateRoot, lock, flags, receiptVars, store, pc, fr, config, tags, sinceClose>>

\* the state root of a stored block is materialized in the state DB from
\* outside the engine
MaterializeRoot(h) ==
  /\ h \in blockRec
  /\ ~HasStateRoot(StateRoot(h))
  /\ stateRoots' = stateRoots \cup {StateRoot(h)}
  /\ probe' = IF probe.phase = "firstDone" /\ h = probe.at
              THEN [probe EXCEPT !.phase = "repaired"]
              ELSE probe
  /\ UNCHANGED <<vmStateRoot, lock, flags, receiptVars, store, pc, fr, config, tags, sinceClose>>

\* the client begins to shut down: config.shutdown = true
SetShutdown ==
  /\ ~shutdown
  /\ shutdown' = TRUE
  /\ UNCHANGED <<lock, started, running, vmPromise, stateDBOpen, receiptVars, state,
                 store, pc, fr>>
  /\ UNCHANGED <<config, probe, tags, sinceClose>>

(***************************************************************************)
(* The specification.                                                       *)
(***************************************************************************)
RECURSIVE SeqsUpTo(_, _)
SeqsUpTo(S, n) ==
  IF n = 0 THEN {<<>>}
  ELSE LET shorter == SeqsUpTo(S, n - 1)
       IN shorter \cup {Append(q, x) : q \in shorter, x \in S}

Init ==
  /\ permits = 1
  /\ lockQueue = <<>>
  /\ started = FALSE
  /\ running = FALSE
  /\ shutdown = FALSE
  /\ vmPromise = "undefined"
  /\ stateDBOpen = TRUE
  /\ pendingReceipts = EmptyMap
  /\ receiptIndex = EmptyMap
  /\ inFlight = {}
  /\ stateRoots = {}
  /\ vmStateRoot = EmptyRoot
  /\ blockRec = {Genesis}
  /\ tdRec = {Genesis}
  /\ hashToNumber = {Genesis}
  /\ canonical = [n \in Numbers |-> IF n = 0 THEN Genesis ELSE NoHash]
  /\ canonicalHead = Genesis
  /\ cursors = [c \in CursorNames |-> Genesis]
  /\ pc = [p \in Callers |-> "idle"]
  /\ fr = [p \in Callers |-> IdleFrame]
  /\ stashed = {}
  /\ executedUnseen = {}
  /\ numBlocksPerIteration = NumBlocksPerIteration
  /\ probe = NoProbe
  /\ execution = TRUE
  /\ hardfork = ""
  /\ execHardfork \in Hardforks
  /\ statsVm = "undefined"
  /\ statsInterval = FALSE
  /\ switchMsgs = 0
  /\ sinceClose = "never"

\* the chain G, A1, ..., of height n
ChainUpTo(n) == {Genesis} \cup {Chain[i] : i \in 1..n}

\* A started engine in the middle of a sync: the store holds a chain of height
\* top, the blocks up to height at have been executed by earlier runs, and
\* the configuration asks for size blocks a pass, with config.execution in EX
InitSyncWith(EX) ==
  \E top \in 1..MaxHeight, size \in 1..NumBlocksPerIteration :
    \E at \in 0..top :
      /\ permits = 1
      /\ lockQueue = <<>>
      /\ started = TRUE
      /\ running = FALSE
      /\ shutdown = FALSE
      /\ vmPromise = "undefined"
      /\ stateDBOpen = TRUE
      /\ pendingReceipts = EmptyMap
      /\ receiptIndex = [h \in ChainUpTo(at) \ {Genesis} |-> RunBlockReceipts(h)]
      /\ inFlight = {}
      /\ stateRoots = {StateRoot(h) : h \in ChainUpTo(at)}
      /\ vmStateRoot = StateRoot(AncestorAt(Chain[top], at))
      /\ blockRec = ChainUpTo(top)
      /\ tdRec = ChainUpTo(top)
      /\ hashToNumber = ChainUpTo(top)
      /\ canonical = CanonicalAfterPut(Chain[top])
      /\ canonicalHead = Chain[top]
      /\ cursors = [c \in CursorNames |->
                      IF c = "vm" THEN AncestorAt(Chain[top], at) ELSE Genesis]
      /\ pc = [p \in Callers |-> "idle"]
      /\ fr = [p \in Callers |-> IdleFrame]
      /\ stashed = {}
      /\ executedUnseen = ChainUpTo(at) \ {Genesis}
      /\ numBlocksPerIteration = size
      /\ probe = NoProbe
      /\ execution \in EX
      /\ hardfork = HardforkBy(AncestorAt(Chain[top], at))
      /\ execHardfork = HardforkBy(AncestorAt(Chain[top], at))
      /\ statsVm = "undefined"
      /\ statsInterval = FALSE
      /\ switchMsgs = 0
      /\ sinceClose = "never"

InitSync == InitSyncWith({TRUE})

\* the open steps of the callers C
OpenNext(C) ==
  \/ \E p \in C : OpenCall(p)
  \/ \E p \in C : OpenBody(p)
  \/ \E p \in C : OpenExit(p)

\* the stop steps of the callers C
StopNext(C) ==
  \/ \E p \in C : StopCall(p)
  \/ \E p \in C : StopBody1(p)
  \/ \E p \in C : StopExit1(p)
  \/ \E p \in C : StopMid(p)
  \/ \E p \in C : StopAwait(p)
  \/ \E p \in C : StopBody2(p)
  \/ \E p \in C : StopExit2(p)

\* the runWithoutSetHead steps of the callers C, for the blocks RB, with
\* receipts supplied or not as SUP says, blocking in BLK, skipBlockchain in SKP
RwshNext(C, RB, SUP, BLK, SKP) ==
  \/ \E p \in C, b \in RB, sup \in SUP, blocking \in BLK, skipBc \in SKP :
       RwshCall(p, b, IF sup THEN Some(BuiltReceipts(b)) ELSE Undefined, blocking, skipBc)
  \/ \E p \in C : RwshBegin(p)
  \/ \E p \in C : RwshExec(p)
  \/ \E p \in C : RwshBatch(p)
  \/ \E p \in C : RwshExit(p)

\* the setHead steps of the callers C, for the lists BL and the optional safe
\* and finalized blocks SB and FB
SetHeadNext(C, BL, SB, FB) ==
  \/ \E p \in C, blocks \in BL, safe \in SB, fin \in FB :
       SetHeadCall(p, blocks, safe, fin)
  \/ \E p \in C : ShRoot(p)
  \/ \E p \in C : ShPut(p)
  \/ \E p \in C : ShCanon(p)
  \/ \E p \in C : ShHeads(p)
  \/ \E p \in C : ShUpdate(p)
  \/ \E p \in C : ShExit(p)

\* the run steps of the callers C, with loop in LOOP and runOnlybatched in OB
RunNext(C, LOOP, OB) ==
  \/ \E p \in C, loop \in LOOP, onlyBatched \in OB : RunCall(p, loop, onlyBatched)
  \/ \E p \in C : RunBegin(p)
  \/ \E p \in C : RunLoop(p)
  \/ \E p \in C : RunIter(p)
  \/ \E p \in C : RunCallback(p)
  \/ \E p \in C : RunCatch(p)
  \/ \E p \in C : RunAfter(p)
  \/ \E p \in C : RunExit(p)

\* the start steps of the callers C
StartNext(C) ==
  \/ \E p \in C : StartCall(p)
  \/ \E p \in C : StartVmHead(p)
  \/ \E p \in C : StartCanonical(p)
  \/ \E p \in C : StartFire(p)

\* the executeBlocks steps of the callers C, for the ranges over R and the
\* transaction selections TX
ExecuteBlocksNext(C, R, TX) ==
  \/ \E p \in C, first \in R, last \in R, txHashes \in TX :
       ExecuteBlocksCall(p, first, last, txHashes)
  \/ \E p \in C : ExecuteBlocksBlock(p)

\* the blocks of the head manager's scenarios: the two competing blocks
ForkBlocks == {"A1", "B1"}
\* the block lists a consensus client hands to setHead
BlockLists == SeqsUpTo(ForkBlocks, MaxList) \ {<<>>}
OptionalBlock == {Undefined} \cup {Some(h) : h \in ForkBlocks}
\* the block the sync service imports on its own: the competitor of A1
SyncBlocks == {"B1"}

\* Head manager and cursors: one consensus client drives runWithoutSetHead and
\* setHead while the sync service writes to the shared store
Next ==
  \/ OpenNext({"c1"})
  \/ RwshNext({"c1"}, ForkBlocks, {FALSE}, {TRUE}, BOOLEAN)
  \/ SetHeadNext({"c1"}, BlockLists, OptionalBlock, OptionalBlock)
  \/ \E h \in SyncBlocks : StorePutBlock(h)

Spec == Init /\ [][Next]_vars

\* Receipts: the consensus client supplies receipts or has the block executed,
\* and the receipt writes land in their own time
NextReceipts ==
  \/ OpenNext({"c1"})
  \/ RwshNext({"c1"}, ForkBlocks, BOOLEAN, {TRUE}, BOOLEAN)
  \/ SetHeadNext({"c1"}, BlockLists, {Undefined}, {Undefined})
  \/ \E w \in inFlight : ReceiptsLand(w)

SpecReceipts == Init /\ [][NextReceipts]_vars

\* The gate: two producers call every mutator
NextGate ==
  \/ OpenNext(Callers)
  \/ StopNext(Callers)
  \/ RwshNext(Callers, {"A1"}, {FALSE}, BOOLEAN, {FALSE})
  \/ SetHeadNext(Callers, {<<"A1">>}, {Undefined}, {Undefined})
  \/ RunNext(Callers, {TRUE}, {FALSE})
  \/ \E h \in {"A1"} : StorePutBlock(h)

SpecGate == Init /\ [][NextGate]_vars

\* Sync: one producer calls run on a stored chain while the state root of the
\* block at the vm cursor goes, and comes back for that block or for the
\* block a failed run had found without its root
NextSync ==
  \/ RunNext({"c1"}, BOOLEAN, BOOLEAN)
  \/ DeleteRoot
  \/ \E h \in {cursors["vm"], probe.at} : MaterializeRoot(h)

SpecSync == InitSync /\ [][NextSync]_vars

\* Linear sync: the state DB is left alone and every step of a run in
\* progress is eventually taken
NextLinear == RunNext({"c1"}, BOOLEAN, {FALSE})

SpecLinear ==
  /\ InitSync
  /\ [][NextLinear]_vars
  /\ WF_vars(\E p \in Callers :
        RunBegin(p) \/ RunLoop(p) \/ RunIter(p) \/ RunCallback(p)
          \/ RunCatch(p) \/ RunAfter(p) \/ RunExit(p))

\* The cursor and the state DB: one producer opens the engine, has blocks
\* executed, promotes them and runs over the blocks the sync service stored,
\* while the state root of the block at the vm cursor goes and comes back
CursorBlocks == {"A1", "A2"}

NextCursor ==
  \/ OpenNext({"c1"})
  \/ RwshNext({"c1"}, CursorBlocks, {FALSE}, {TRUE}, BOOLEAN)
  \/ SetHeadNext({"c1"}, {<<h>> : h \in CursorBlocks}, {Undefined}, {Undefined})
  \/ RunNext({"c1"}, {FALSE}, {FALSE})
  \/ \E h \in CursorBlocks : StorePutBlock(h)
  \/ DeleteRoot
  \/ \E h \in {cursors["vm"], probe.at} : MaterializeRoot(h)

SpecCursor == Init /\ [][NextCursor]_vars

\* Receipts of a sync: the state DB is left alone and the receipt writes the
\* run dispatched land in their own time
NextDurable ==
  \/ RunNext({"c1"}, BOOLEAN, {FALSE})
  \/ \E w \in inFlight : ReceiptsLand(w)

SpecDurable == InitSync /\ [][NextDurable]_vars

\* Shutdown of a sync: one producer runs over the stored chain, another
\* stops the engine; every step of a call under way is eventually taken
NextShutdown ==
  \/ RunNext({"c1"}, {TRUE}, {FALSE})
  \/ StopNext({"c2"})

SpecShutdown ==
  /\ InitSync
  /\ [][NextShutdown]_vars
  /\ WF_vars(\E p \in Callers :
        RunBegin(p) \/ RunLoop(p) \/ RunIter(p) \/ RunCallback(p)
          \/ RunCatch(p) \/ RunAfter(p) \/ RunExit(p))
  /\ WF_vars(\E p \in Callers :
        StopBody1(p) \/ StopExit1(p) \/ StopMid(p) \/ StopAwait(p)
          \/ StopBody2(p) \/ StopExit2(p))

\* Cancellation of a sync: one producer runs over the stored chain while
\* another stops the engine and the client begins to shut down
NextCancel ==
  \/ RunNext({"c1"}, BOOLEAN, {FALSE})
  \/ StopNext({"c2"})
  \/ SetShutdown

SpecCancel == InitSync /\ [][NextCancel]_vars

\* Start of a sync: the engine is started before or after the merge, with
\* execution enabled or not, while another producer runs and stops it
InitStart == InitSyncWith(BOOLEAN)

NextStart ==
  \/ StartNext({"c1"})
  \/ RunNext(Callers, {FALSE}, {FALSE})
  \/ StopNext({"c2"})

SpecStart == InitStart /\ [][NextStart]_vars

\* Debug replay: blocks of the stored chain are replayed, whole or by
\* transaction, between the runs of the sync
\* txHashes: none, the wildcard, or the hash of a transaction
TxSelections == {<<>>, <<"*">>, <<"tx">>}

NextReplay ==
  \/ ExecuteBlocksNext({"c1"}, 0..MaxHeight, TxSelections)
  \/ RunNext({"c1"}, {FALSE}, {FALSE})

SpecReplay == InitSync /\ [][NextReplay]_vars

\* Reorgs during a sync: one producer runs over the stored chain while the
\* sync service makes the competing block B1 canonical, or the chain through
\* A2 again
ReorgBlocks == {"B1", "A2"}

NextReorg ==
  \/ RunNext({"c1"}, {TRUE}, {FALSE})
  \/ \E h \in ReorgBlocks : StorePutBlock(h)

\* the stored chain is no higher than the blocks of the reorgs
InitReorg ==
  /\ InitSync
  /\ \E h \in ReorgBlocks : Number(canonicalHead) <= Number(h)

SpecReorg == InitReorg /\ [][NextReorg]_vars

\* Linear sync across the merge: the engine stands on a block under the
\* London rules, the stored chain reaches the Paris rules, and two producers
\* call run; the state DB is left alone
InitSwitch ==
  /\ InitSync
  /\ hardfork = "london"
  /\ HardforkBy(canonicalHead) = "paris"

NextSwitch == RunNext(Callers, BOOLEAN, {FALSE})

SpecSwitch == InitSwitch /\ [][NextSwitch]_vars

\* Failing store: one producer runs over the stored chain while reads of the
\* block store may fail inside the iterator
NextIterFail ==
  \/ RunNext({"c1"}, BOOLEAN, {FALSE})
  \/ \E p \in {"c1"} : RunIterFail(p)

SpecIterFail == InitSync /\ [][NextIterFail]_vars

(***************************************************************************)
(* Properties.                                                              *)
(***************************************************************************)
InSetHead(p) == fr[p].op = "setHead"
InRwsh(p) == fr[p].op = "rwsh"

\* C1: at most one caller is inside a locked body (of open, stop, run,
\* runWithoutSetHead or setHead) at any instant, and while one is, the gate's
\* permit is taken, so that any other caller's body starts after the release.
C1_MutualExclusion ==
  /\ Cardinality({p \in Callers : InBody(p)}) <= 1
  /\ (\E p \in Callers : InBody(p)) => permits = 0

\* a run body is in flight while a setHead call is suspended at the gate
C1_Witness ==
  \E p, q \in Callers :
    /\ fr[p].op = "run" /\ pc[p] = "run_cb"
    /\ fr[q].op = "setHead" /\ pc[q] = "suspended"

\* C2 (as stated): once setHead has put its blocks, it fails at the
\* canonicality check if and only if one of the blocks it names (the new vm
\* head, safe, finalized) is off the canonical chain at the check.
C2_FailsIffNamedOff ==
  \A p \in Callers :
    InSetHead(p) =>
      /\ pc[p] \in {"sh_heads", "sh_update"} => ~fr[p].namedOff
      /\ pc[p] = "sh_exit" /\ fr[p].hadRoot =>
           (fr[p].result = "threw" <=> fr[p].namedOff)

\* C3: a setHead that fails because a named block is not canonical has moved
\* no cursor: vm, safe and finalized are as its body found them.
C3_NoCursorMovedOnFailure ==
  \A p \in Callers :
    InSetHead(p) /\ pc[p] = "sh_exit" /\ fr[p].error = "not in canonical chain" =>
      /\ cursors = fr[p].snap.cursors
      /\ fr[p].wrote \cap CursorNames = {}

\* a setHead fails at the canonicality check after its putBlocks changed the store
C3_Witness ==
  \E p \in Callers :
    /\ InSetHead(p) /\ pc[p] = "sh_exit" /\ fr[p].error = "not in canonical chain"
    /\ "canonical" \in fr[p].wrote

\* C4: when the state DB lacks the state root of the last block, setHead fails
\* before putBlocks, before any drain and before any cursor update: it has
\* written nothing to the store, drained nothing, and the pending map and the
\* cursors are as its body found them.
C4_MissingRootFailsFirst ==
  \A p \in Callers :
    InSetHead(p) /\ ~fr[p].hadRoot =>
      /\ pc[p] \in {"sh_exit", "done"}
      /\ fr[p].result = "threw" /\ fr[p].error = "stateRoot not found"
      /\ fr[p].wrote = {} /\ fr[p].drained = EmptyMap /\ fr[p].emits = 0
      /\ pc[p] = "sh_exit" =>
           pendingReceipts = fr[p].snap.pending /\ cursors = fr[p].snap.cursors

\* a setHead fails on a missing state root of a block the store does not hold
C4_Witness ==
  \E p \in Callers :
    /\ InSetHead(p) /\ pc[p] = "sh_exit" /\ ~fr[p].hadRoot
    /\ Last(fr[p].blocks) \notin blockRec

\* C5 (as stated): after every setHead call, pendingReceipts has no entry for
\* any block of the call's list.
C5_DrainedAfterEveryCall ==
  \A p \in Callers :
    InSetHead(p) /\ pc[p] = "done" =>
      Range(fr[p].blocks) \cap DOMAIN pendingReceipts = {}

\* C5 (amended): after every setHead call that was not turned away at entry and
\* passed the state-root check (so after every call that returns true),
\* pendingReceipts has no entry for any block of the call's list.
C5_DrainedAfterAcceptedCall ==
  \A p \in Callers :
    /\ InSetHead(p)
    /\ pc[p] \in {"sh_canon", "sh_heads", "sh_update", "sh_exit", "done"}
    /\ fr[p].result # "false"
    /\ fr[p].hadRoot
    => Range(fr[p].blocks) \cap DOMAIN pendingReceipts = {}

\* a setHead over two blocks returned true after draining the empty receipt
\* list of an empty block
C5_Witness ==
  \E p \in Callers :
    /\ InSetHead(p) /\ pc[p] = "done" /\ fr[p].result = "true"
    /\ Len(fr[p].blocks) = 2
    /\ \E h \in DOMAIN fr[p].drained : fr[p].drained[h] = <<>>

\* C6 (as stated): a hash has an entry in pendingReceipts if and only if the
\* engine has executed the block and no setHead has seen it since.
C6_PendingIffExecutedUnseen == DOMAIN pendingReceipts = executedUnseen

\* C6 (amended): a hash has an entry in pendingReceipts if and only if a
\* runWithoutSetHead call has stashed receipts for it, either produced by
\* executing the block or supplied by its caller, and no setHead call that
\* reached its drain has had the block in its list since.
C6_PendingIffStashedUnseen == DOMAIN pendingReceipts = stashed

\* a setHead drained one block while the supplied receipts of another, which
\* was never executed, stay pending
C6_Witness ==
  \E p \in Callers :
    /\ InSetHead(p) /\ pc[p] = "sh_exit" /\ fr[p].result = "true"
    /\ DOMAIN fr[p].drained # {}
    /\ \E h \in DOMAIN pendingReceipts : h \notin executedUnseen

\* C7 (as stated): when a setHead that promotes a block stashed by
\* runWithoutSetHead returns, the receipt index holds for that block the
\* receipts that were stashed.
C7_ReceiptsStoredAtReturn ==
  \A p \in Callers :
    InSetHead(p) /\ pc[p] = "done" /\ fr[p].result = "true" =>
      \A h \in DOMAIN fr[p].drained :
        MapGet(receiptIndex, h) = Some(fr[p].drained[h])

\* C8: runWithoutSetHead changes neither the canonical number->hash mapping nor
\* the canonical head nor any cursor; unless skipBlockchain it leaves the
\* block with its total-difficulty, block and hash->number records, and with
\* skipBlockchain it changes nothing in the block store.
C8_NeverCanonical ==
  \A p \in Callers :
    InRwsh(p) =>
      /\ fr[p].wrote \cap ({"canonical", "canonicalHead"} \cup CursorNames) = {}
      /\ fr[p].skipBc => fr[p].wrote = {}
      /\ pc[p] = "rw_exit" => cursors = fr[p].snap.cursors
      /\ pc[p] = "rw_exit" /\ fr[p].result = "true" /\ ~fr[p].skipBc =>
           fr[p].blk \in tdRec \cap blockRec \cap hashToNumber

\* a runWithoutSetHead has stored a block that is not canonical
C8_Witness ==
  \E p \in Callers :
    /\ InRwsh(p) /\ pc[p] = "rw_exit" /\ fr[p].result = "true"
    /\ "block" \in fr[p].wrote
    /\ ~IsCanonical(fr[p].blk)

\* C9: when setHead succeeds, the vm cursor is the hash of the last block of
\* the list, the safe cursor is safeBlock's hash if provided and else what it
\* was, and the finalized cursor is finalizedBlock's hash if provided and else
\* what it was.
C9_CursorsAfterSetHead ==
  \A p \in Callers :
    InSetHead(p) /\ pc[p] = "sh_exit" /\ fr[p].result = "true" =>
      /\ cursors["vm"] = Last(fr[p].blocks)
      /\ cursors["safe"] =
           IF fr[p].safe # Undefined THEN The(fr[p].safe) ELSE fr[p].snap.cursors["safe"]
      /\ cursors["finalized"] =
           IF fr[p].fin # Undefined THEN The(fr[p].fin) ELSE fr[p].snap.cursors["finalized"]

\* a successful setHead moved finalized and kept a safe cursor that is not the
\* new vm head
C9_Witness ==
  \E p \in Callers :
    /\ InSetHead(p) /\ pc[p] = "sh_exit" /\ fr[p].result = "true"
    /\ fr[p].safe = Undefined /\ fr[p].fin # Undefined
    /\ cursors["safe"] \notin {Genesis, Last(fr[p].blocks)}
    /\ cursors["finalized"] # fr[p].snap.cursors["finalized"]

\* C10: a setHead call signals chain-updated once if it succeeds, and it does
\* so when the cursors have been advanced; it signals nothing if it fails or
\* returns false.
C10_ChainUpdatedOnce ==
  \A p \in Callers :
    InSetHead(p) =>
      /\ fr[p].result = "true" => fr[p].emits = 1
      /\ fr[p].result \in {"false", "threw"} => fr[p].emits = 0
      /\ fr[p].emits > 0 =>
           /\ pc[p] \in {"sh_exit", "done"}
           /\ pc[p] = "sh_exit" =>
                /\ cursors["vm"] = Last(fr[p].blocks)
                /\ fr[p].safe # Undefined => cursors["safe"] = The(fr[p].safe)
                /\ fr[p].fin # Undefined => cursors["finalized"] = The(fr[p].fin)

\* a successful setHead over two blocks has signalled chain-updated
C10_Witness ==
  \E p \in Callers :
    /\ InSetHead(p) /\ pc[p] = "sh_exit" /\ fr[p].emits = 1
    /\ Len(fr[p].blocks) = 2
    /\ "vm" \in fr[p].wrote

InRun(p) == fr[p].op = "run"

\* C11: a runWithoutSetHead call with blocking = false never waits at the
\* gate: it is never among the callers suspended in the lock's queue.
C11_NonBlockingNeverQueues ==
  \A p \in Callers :
    (InRwsh(p) /\ ~fr[p].blocking) => pc[p] # "suspended"

\* C12: a runWithoutSetHead call given receipts never invokes vm.runBlock and,
\* once its body is through, the receipts stashed under the block's hash are
\* the ones it was given; a call given none invokes vm.runBlock once and, when
\* the execution succeeds, the receipts stashed are the ones vm.runBlock made.
C12_SuppliedOrExecuted ==
  \A p \in Callers :
    InRwsh(p) =>
      /\ fr[p].rc # Undefined =>
           /\ fr[p].ranBlock = 0
           /\ (pc[p] \in {"rw_batch", "rw_exit", "done"} /\ fr[p].result # "false") =>
                MapGet(pendingReceipts, fr[p].blk) = fr[p].rc
      /\ fr[p].rc = Undefined =>
           /\ fr[p].ranBlock <= 1
           /\ (pc[p] \in {"rw_batch", "rw_exit", "done"} /\ fr[p].result # "false") =>
                fr[p].ranBlock = 1
           /\ (pc[p] \in {"rw_batch", "rw_exit", "done"}
                 /\ fr[p].result \notin {"false", "threw"}) =>
                MapGet(pendingReceipts, fr[p].blk) = Some(RunBlockReceipts(fr[p].blk))

\* a call given the receipts of A1 has replaced the ones an earlier call had
\* made by executing A1
C12_Witness ==
  \E p \in Callers :
    /\ InRwsh(p) /\ pc[p] = "rw_exit" /\ fr[p].result = "true"
    /\ fr[p].blk = "A1" /\ fr[p].rc = Some(BuiltReceipts("A1"))
    /\ "A1" \in executedUnseen
    /\ fr[p].snap.pending = MapSet(EmptyMap, "A1", RunBlockReceipts("A1"))
    /\ pendingReceipts["A1"] = BuiltReceipts("A1")

\* C13: the number a run call returns is the number of blocks it executed,
\* over all the passes of its loop, when no block fails.
C13_ReturnsTotalExecuted ==
  \A p \in Callers :
    (InRun(p) /\ pc[p] \in {"run_exit", "done"} /\ fr[p].failures = 0) =>
      fr[p].returned = fr[p].executed

\* C14: a run call with loop = false makes at most one pass of the iterator;
\* once past the entry check, with runOnlybatched = false and no block
\* failing, it executes
\* min(numBlocksPerIteration, canonical.number - vm.number) blocks, returns
\* that count and leaves the vm cursor that many blocks further.
C14_BatchedRun ==
  \A p \in Callers :
    (InRun(p) /\ ~fr[p].loop) =>
      /\ fr[p].passes <= 1
      /\ (pc[p] \in {"run_exit", "done"} /\ fr[p].snap # NoSnap
            /\ ~fr[p].onlyBatched /\ fr[p].failures = 0) =>
           LET gap == Number(canonicalHead) - Number(fr[p].snap.cursors["vm"])
               count == IF numBlocksPerIteration < gap THEN numBlocksPerIteration ELSE gap
           IN /\ fr[p].executed = count
              /\ fr[p].returned = count
              /\ Number(cursors["vm"]) = Number(fr[p].snap.cursors["vm"]) + count
              /\ IsCanonical(cursors["vm"])

\* a batched run of two blocks a pass has stopped one block short of the head
C14_Witness ==
  \E p \in Callers :
    /\ InRun(p) /\ ~fr[p].loop /\ ~fr[p].onlyBatched /\ pc[p] = "run_exit"
    /\ numBlocksPerIteration = 2
    /\ fr[p].snap.cursors["vm"] = "A1" /\ canonicalHead = "A4"
    /\ fr[p].passes = 1 /\ fr[p].returned = 2 /\ cursors["vm"] = "A3"

\* C15: on a linear canonical chain with every needed state root present and
\* no shutdown, a run call with loop = true and runOnlybatched = false that
\* has entered its body either meets a failing block or returns with the vm
\* cursor at the canonical head, whatever numBlocksPerIteration and the gap.
C15_LinearSyncReachesHead ==
  \A p \in Callers :
    (pc[p] = "run_begin" /\ fr[p].loop /\ ~fr[p].onlyBatched) ~>
      (fr[p].failures > 0 \/ (pc[p] = "done" /\ cursors["vm"] = canonicalHead))

\* a looping run of two blocks a pass has covered a gap of three blocks in two
\* passes
C15_Witness ==
  \E p \in Callers :
    /\ InRun(p) /\ fr[p].loop /\ ~fr[p].onlyBatched /\ pc[p] = "done"
    /\ numBlocksPerIteration = 2
    /\ fr[p].snap.cursors["vm"] = Genesis /\ canonicalHead = "A3"
    /\ fr[p].passes = 2 /\ fr[p].failures = 0 /\ cursors["vm"] = "A3"

\* C16: when a block fails in a run with an error other than a missing state
\* root, no further block is delivered in that pass, the vm cursor is left at
\* the failed block's parent (the last block executed), the failed block stays
\* in the block store, one SYNC_EXECUTION_VM_ERROR is emitted per failure, and
\* the run returns a number.
C16_VmErrorHandled ==
  \A p \in Callers :
    InRun(p) =>
      /\ fr[p].errorBlock # Undefined => pc[p] \notin {"run_iter", "run_cb"}
      /\ fr[p].failures < MaxCount =>
           fr[p].vmErrors = IF pc[p] = "run_catch" THEN fr[p].failures - 1
                            ELSE fr[p].failures
      /\ (fr[p].errorBlock # Undefined /\ fr[p].error # "does not contain state root"
            /\ pc[p] \in {"run_after", "run_loop", "run_exit", "done"}) =>
           /\ cursors["vm"] = ParentHash(The(fr[p].errorBlock))
           /\ cursors["vm"] = The(fr[p].headBlock)
           /\ The(fr[p].errorBlock) \in blockRec
           /\ fr[p].numKind = "number"
      /\ pc[p] \in {"run_exit", "done"} => fr[p].result = "number"

\* a run has executed A1, failed on A2 with a VM error and returned
C16_Witness ==
  \E p \in Callers :
    /\ InRun(p) /\ pc[p] = "done" /\ fr[p].result = "number"
    /\ fr[p].errorBlock = Some("A2") /\ fr[p].error = "vm error"
    /\ fr[p].failures = 1 /\ fr[p].vmErrors = 1 /\ fr[p].executed = 1
    /\ cursors["vm"] = "A1" /\ "A2" \in blockRec

\* C17: the count of an iterator pass that ended in a block failure is the
\* number of blocks the pass executed before the failure.
C17_FailedPassCount ==
  \A p \in Callers :
    (InRun(p) /\ pc[p] = "run_after" /\ fr[p].errorBlock # Undefined) =>
      fr[p].numExecuted = fr[p].iterCount

\* C18: with the vm cursor at a block above genesis whose state root the state
\* DB has lost, a run call that fails on the next block with a missing state
\* root leaves the vm cursor strictly below the block it was at.
C18_MissingRootRewinds ==
  \A p \in Callers :
    (InRun(p) /\ pc[p] = "done" /\ probe.phase = "firstDone"
       /\ Number(probe.at) >= 1
       /\ fr[p].snap.cursors["vm"] = probe.at
       /\ fr[p].failures >= 1 /\ fr[p].error = "does not contain state root") =>
      Number(cursors["vm"]) < Number(probe.at)

\* C19: the handler of a failed pass moves the vm cursor only when the failure
\* is a missing state root, the failed block's number is above 1, the tracked
\* parent headBlock is defined and the state DB has headBlock's state root; it
\* then sets the cursor, once, to headBlock.parentHash.  Otherwise the cursor
\* is left as it was; the other cursors are never touched.
C19_BackstepGuard ==
  [][\A p \in Callers :
       (pc[p] = "run_catch" /\ pc'[p] = "run_after") =>
         LET f == fr[p]
             guard == /\ f.error = "does not contain state root"
                      /\ Number(The(f.errorBlock)) > 1
                      /\ f.headBlock # Undefined
                      /\ StateRoot(The(f.headBlock)) \in stateRoots
         IN /\ guard => /\ cursors'["vm"] = ParentHash(The(f.headBlock))
                        /\ fr'[p].backSteps = Bump(f.backSteps)
            /\ ~guard => /\ cursors'["vm"] = cursors["vm"]
                         /\ fr'[p].backSteps = f.backSteps
            /\ cursors'["safe"] = cursors["safe"]
            /\ cursors'["finalized"] = cursors["finalized"]]_vars

\* the root of A1 came back while the failure of A2 was being handled, and the
\* handler has set the vm cursor back to the parent of A1
C19_Witness ==
  \E p \in Callers :
    /\ InRun(p) /\ pc[p] = "run_after"
    /\ fr[p].errorBlock = Some("A2") /\ fr[p].headBlock = Some("A1")
    /\ fr[p].error = "does not contain state root"
    /\ fr[p].backSteps = 1
    /\ fr[p].startHeadBlock = "A1" /\ cursors["vm"] = Genesis

\* C20: a run call that begins with the state root of the block at the vm
\* cursor missing and the next block stored, then the materialization of that
\* root, then a second run call (runOnlybatched = false) in which no block
\* fails, leave the vm cursor at a greater block number than it had before
\* the first call.
C20_BackstepFixedPoint ==
  \A p \in Callers :
    (InRun(p) /\ pc[p] = "done" /\ probe.phase = "secondDone"
       /\ ~fr[p].onlyBatched /\ fr[p].failures = 0) =>
      Number(cursors["vm"]) > Number(probe.at)

\* the first run failed on A2 for the missing root of A1; the root came back
\* and the second run has executed A2
C20_Witness ==
  \E p \in Callers :
    /\ InRun(p) /\ pc[p] = "done" /\ probe = [phase |-> "secondDone", at |-> "A1"]
    /\ ~fr[p].onlyBatched /\ fr[p].failures = 0 /\ fr[p].executed >= 1
    /\ fr[p].snap.cursors["vm"] = "A1"
    /\ Number(cursors["vm"]) >= 2

(***************************************************************************)
(* C21  Cursor monotonicity.                                                *)
(***************************************************************************)
\* a run call whose body has been entered and has returned
RunReturned(p) ==
  /\ InRun(p)
  /\ pc[p] \in {"run_exit", "done"}
  /\ fr[p].snap # NoSnap

\* C21 as stated: without reorgs, the number of the block at the vm cursor
\* after a run invocation is never lower than before it, failing runs included
C21_CursorNeverLower ==
  \A p \in Callers :
    RunReturned(p) => Number(cursors["vm"]) >= Number(fr[p].snap.cursors["vm"])

\* C21: without reorgs, a run invocation lowers the number of the block at
\* the vm cursor by at most one for every backstep it took, and an invocation
\* without a backstep never lowers it, whether or not a block failed
C21_CursorLowerOnlyByBackstep ==
  \A p \in Callers :
    (RunReturned(p) /\ fr[p].backSteps < MaxCount) =>
      Number(cursors["vm"]) >= Number(fr[p].snap.cursors["vm"]) - fr[p].backSteps

\* a run whose block failed has taken one backstep and returned with the
\* cursor one block below where it was
C21_Witness ==
  \E p \in Callers :
    /\ RunReturned(p)
    /\ fr[p].failures > 0
    /\ fr[p].backSteps = 1
    /\ Number(cursors["vm"]) = Number(fr[p].snap.cursors["vm"]) - 1

(***************************************************************************)
(* C22  Invariant I1: the state DB has the state root of the cursor block.  *)
(***************************************************************************)
\* I1 in one state: the state DB contains the state root of the block the vm
\* cursor points to
CursorRootPresent == HasStateRoot(StateRoot(cursors["vm"]))

\* C22: I1 holds wherever the engine is responsible for it: open establishes
\* it, and every step that removes no state root and starts with the root of
\* the cursor block in the state DB ends with the root of the cursor block in
\* the state DB, whether setHead moved the cursor, run advanced over a block
\* or a backstep set the cursor to headBlock.parentHash
C22_EngineKeepsCursorRoot ==
  [][/\ (~started /\ started') => CursorRootPresent'
     /\ (CursorRootPresent /\ stateRoots \subseteq stateRoots')
          => CursorRootPresent']_vars

(***************************************************************************)
(* C23  Receipt durability before run returns.                              *)
(***************************************************************************)
\* the blocks a returned run call has executed: the blocks of the chain
\* above the cursor it started from, up to the cursor it left
ExecutedBy(p) ==
  {h \in blockRec : /\ IsCanonical(h)
                    /\ Number(h) > Number(fr[p].snap.cursors["vm"])
                    /\ Number(h) <= Number(cursors["vm"])}

\* C23 (as stated): at the moment run returns, every saveReceipts write its
\* per-block callback dispatched has completed: the receipt index holds the
\* receipts of every block that run executed and no write is under way
C23_ReceiptsPersistedAtReturn ==
  \A p \in Callers :
    (RunReturned(p) /\ pc[p] = "done") =>
      \A h \in ExecutedBy(p) :
        /\ MapGet(receiptIndex, h) = Some(RunBlockReceipts(h))
        /\ \A w \in inFlight : w[1] # h

(***************************************************************************)
(* C24  stop closes the state DB after the execution in flight.             *)
(***************************************************************************)
\* a caller is inside the locked body of run, runWithoutSetHead or setHead
InExecutionBody(p) == InBody(p) /\ fr[p].op \in {"run", "rwsh", "setHead"}

\* the state right after stop's second phase has closed the state DB
JustClosed(p) == fr[p].op = "stop" /\ pc[p] = "st_exit2"

\* C24, the close itself: when stop closes the state DB, the iterator promise
\* is not pending and no run, runWithoutSetHead or setHead body is executing
C24_CloseAfterExecution ==
  \A p \in Callers :
    JustClosed(p) =>
      /\ vmPromise # "pending"
      /\ \A q \in Callers : ~InExecutionBody(q)

\* C24 (as stated): the close happens after the pending iterator promise has
\* resolved and while no run, runWithoutSetHead or setHead body is executing,
\* and no such body executes after the close unless the engine has been
\* opened again since
C24_NoBodyAfterClose ==
  /\ C24_CloseAfterExecution
  /\ sinceClose = "closed" => \A q \in Callers : ~InExecutionBody(q)

(***************************************************************************)
(* C25  stop never deadlocks.                                               *)
(***************************************************************************)
\* a stop call is under way: called and not yet returned
StopUnderWay(p) == fr[p].op = "stop" /\ pc[p] # "done"

\* a stop call has returned true
StopReturned(p) == fr[p].op = "stop" /\ pc[p] = "done" /\ fr[p].result = "true"

\* C25 (as stated): a stop called while a run is in flight or queued
\* eventually returns true, every block execution and store call terminating
C25_StopReturns ==
  \A p \in Callers : StopUnderWay(p) ~> StopReturned(p)

\* the same where a pass takes more than one block
C25_StopReturnsBatched ==
  numBlocksPerIteration = 1 \/ C25_StopReturns

(***************************************************************************)
(* C26  Cooperative cancellation in the run loop.                           *)
(***************************************************************************)
\* C26 (as stated): a block the iterator delivers after shutdown has been set
\* or started cleared is not passed to vm.runBlock: the per-block callback
\* throws 'Execution stopped' at its check
C26_NoRunBlockAfterCancel ==
  [][\A p \in Callers :
       (pc[p] = "run_cb" /\ pc'[p] # "run_cb" /\ fr[p].iterStopped) =>
         /\ fr'[p].ranBlock = fr[p].ranBlock
         /\ fr'[p].error = "Execution stopped"]_vars

(***************************************************************************)
(* C27  No block execution after stopping.                                  *)
(***************************************************************************)
\* C27 (as stated): once started has been cleared or shutdown set, no step
\* of a run, runWithoutSetHead or setHead call invokes vm.runBlock or writes
\* to the block store, a call that was waiting for the gate included
C27_NothingAfterStopping ==
  [][(~started \/ shutdown) =>
       \A p \in Callers :
         (InExecutionBody(p) /\ pc'[p] # pc[p]) =>
           /\ fr'[p].ranBlock = fr[p].ranBlock
           /\ store' = store]_vars

(***************************************************************************)
(* C28  open is a no-op on re-entry.                                        *)
(***************************************************************************)
\* C28: when the body of open runs while the engine is started or an
\* execution promise is outstanding, it changes nothing: vm.init() is not
\* called, the hardfork tag and the VM's hardfork stay, no genesis state is
\* generated, started and every other field and store stay as they are; an
\* open right after an open is such a call
C28_OpenReentryNoop ==
  [][\A p \in Callers :
       (/\ pc[p] = "op_body" /\ pc'[p] # "op_body"
        /\ (started \/ vmPromise # "undefined")) =>
         /\ ~fr'[p].vmInit
         /\ UNCHANGED <<flags, tags, state, store, receiptVars, sinceClose>>]_vars

\* an open has gone through its body as a no-op on an engine that stop has
\* marked as stopped while the promise of an earlier run is outstanding
C28_Witness ==
  \E p \in Callers :
    /\ fr[p].op = "open" /\ pc[p] = "op_exit"
    /\ ~fr[p].vmInit
    /\ ~started /\ vmPromise = "resolved"

(***************************************************************************)
(* C29  start fires the autonomous run.                                     *)
(***************************************************************************)
\* C29: start returns false without firing anything when the engine is
\* running or not started at its entry; otherwise it invokes
\* run(loop = true, onlyBatched = true) if and only if the VM's common is
\* before Paris, config.execution is set and the vm head it read has a lower
\* number than the canonical head it read; after Paris it never fires a run
C29_StartFiresRun ==
  [][\A p \in Callers :
       /\ (AtRest(p) /\ fr'[p] # fr[p] /\ fr'[p].op = "start") =>
            /\ ~fr'[p].fired
            /\ (pc'[p] = "done" /\ fr'[p].result = "false") <=> (running \/ ~started)
       /\ (pc[p] = "start_fire" /\ pc'[p] # "start_fire") =>
            /\ fr'[p].fired <=>
                 /\ ~GteParis(execHardfork)
                 /\ execution
                 /\ Number(fr[p].startHeadBlock) < Number(fr[p].canonicalHead)
            /\ fr'[p].fired =>
                 fr'[p].op = "run" /\ fr'[p].loop /\ fr'[p].onlyBatched
            /\ ~fr'[p].fired => fr'[p].op = "start" /\ fr'[p].result = "true"]_vars

\* before the merge, the run that start fired is executing a block
C29_Witness ==
  \E p \in Callers :
    /\ InRun(p) /\ fr[p].fired /\ pc[p] = "run_cb"
    /\ ~GteParis(execHardfork) /\ execution

(***************************************************************************)
(* C30  executeBlocks changes no chain or engine state.                     *)
(***************************************************************************)
InExecuteBlocks(p) == fr[p].op = "executeBlocks"

\* C30: no step of executeBlocks, for any range and any txHashes list, changes
\* the vm, safe or finalized cursor, the canonical mapping, pendingReceipts,
\* the receipt index (or dispatches a receipt write) or the engine's hardfork
\* tag; so they are after the call what they were before it
C30_ReplayFrame ==
  [][\A p \in Callers :
       ((pc[p] = "eb_block" \/ (AtRest(p) /\ pc'[p] = "eb_block"))
          /\ InExecuteBlocks(p)') =>
         UNCHANGED <<cursors, canonical, canonicalHead, pendingReceipts,
                     receiptIndex, inFlight, hardfork>>]_vars

\* a replay of two whole blocks across the merge has returned: it executed
\* both on the VM copy, whose common is now on Paris, and the engine's tag
\* and the cursor are what they were
C30_Witness ==
  \E p \in Callers :
    /\ InExecuteBlocks(p) /\ pc[p] = "done" /\ fr[p].result = "void"
    /\ fr[p].txHashes = <<>> /\ fr[p].executed = 2
    /\ fr[p].copyHardfork = "paris" /\ hardfork = "london"
    /\ cursors = fr[p].snap.cursors
    /\ statsVm = "copy"

(***************************************************************************)
(* C31  stop interrupts an in-flight run.                                   *)
(***************************************************************************)
\* C31 (as stated): when stop is called while run is executing its loop with
\* blocks still to execute, started is cleared before that run has finished:
\* the run does not leave its loop with started still set
C31_StopInterruptsRun ==
  \A p \in Callers : \A q \in Callers :
    (/\ StopUnderWay(q) /\ fr[q].duringRun
     /\ fr[p].op = "run" /\ pc[p] = "run_exit") => ~started

(***************************************************************************)
(* C32  No open takes effect midway through stop.                           *)
(***************************************************************************)
\* a stop call is between the end of its first locked phase and the end of
\* its second
StopMidway(p) ==
  /\ fr[p].op = "stop"
  /\ \/ pc[p] \in {"st_mid", "st_await", "st_body2", "st_exit2"}
     \/ pc[p] = "suspended" /\ fr[p].next = "st_body2"

\* C32 (as stated): between stop's first locked phase and its second no open
\* sets started back to true, so the state DB is never closed while the
\* engine is started, also when vmPromise is undefined
C32_NoOpenMidwayThroughStop ==
  \A p \in Callers : StopMidway(p) => ~started

(***************************************************************************)
(* C33  running flag discipline.                                            *)
(***************************************************************************)
\* a caller holds the gate inside the body of run or runWithoutSetHead
InRunningBody(p) == InBody(p) /\ fr[p].op \in {"run", "rwsh"}

\* C33: running = true implies the gate is held by a run or
\* runWithoutSetHead body; running is false whenever the gate is free, also
\* after a body has exited by throwing
C33_RunningDiscipline ==
  /\ running => (permits = 0 /\ \E p \in Callers : InRunningBody(p))
  /\ LockAvailable => ~running

\* a runWithoutSetHead call has thrown and returned, and later another
\* caller's run holds the gate with running set
C33_Witness ==
  \E p \in Callers : \E q \in Callers :
    /\ fr[p].op = "rwsh" /\ pc[p] = "done" /\ fr[p].result = "threw"
    /\ fr[q].op = "run" /\ pc[q] = "run_cb" /\ running

(***************************************************************************)
(* C34  Parent state selection in the per-block callback.                   *)
(***************************************************************************)
\* the per-block callback of caller p takes its step
CallbackStep(p) == pc[p] = "run_cb" /\ pc'[p] # "run_cb"

\* on the first call of a pass and on every call with reorg = true the
\* callback reloads headBlock as the delivered block's parent and takes that
\* parent's state root as parentState
HeadReloaded(p) ==
  (fr[p].iterCount = 0 \/ fr[p].iterReorg) =>
    /\ fr'[p].cbHead = Some(ParentHash(fr[p].iterBlock))
    /\ fr'[p].cbParentState = Some(StateRoot(ParentHash(fr[p].iterBlock)))

\* C34 (as stated): on the first call of a pass and on every call with
\* reorg = true headBlock is reloaded as the delivered block's parent,
\* parentState is that parent's state root and clearCache is forced to true;
\* on every other call clearCache = (previous VM state root # parentState)
C34_ClearCacheForcedOnFirst ==
  [][\A p \in Callers :
       CallbackStep(p) =>
         /\ HeadReloaded(p)
         /\ IF fr[p].iterCount = 0 \/ fr[p].iterReorg
            THEN fr'[p].clearCache = TRUE
            ELSE fr'[p].clearCache = (vmStateRoot # The(fr'[p].cbParentState))]_vars

\* C34 (amended): headBlock and parentState as stated; clearCache is true on
\* every call with reorg = true, equals (previous VM state root # parentState)
\* on the first call of a pass without a reorg, and on every other call is
\* false, which is also the value of (previous VM state root # parentState)
C34_ParentStateSelection ==
  [][\A p \in Callers :
       CallbackStep(p) =>
         /\ HeadReloaded(p)
         /\ IF fr[p].iterReorg
            THEN fr'[p].clearCache = TRUE
            ELSE fr'[p].clearCache = (vmStateRoot # The(fr'[p].cbParentState))
         /\ ~(fr[p].iterCount = 0 \/ fr[p].iterReorg) => fr'[p].clearCache = FALSE]_vars

\* a first call of a pass without a reorg has found the VM on the parent's
\* state root and left clearCache false
C34_Witness ==
  \E p \in Callers :
    /\ fr[p].op = "run" /\ pc[p] = "run_iter"
    /\ fr[p].cbFirst /\ ~fr[p].iterReorg
    /\ fr[p].cbHead = Some(ParentHash(fr[p].iterBlock))
    /\ fr[p].iterBlock # NoHash
    /\ ~fr[p].clearCache

(***************************************************************************)
(* C35  Hardfork switching in the run loop.                                 *)
(***************************************************************************)
\* the first block under the Paris rules on the chain
TransitionBlock == Chain[ParisBlock]

\* at every vm.runBlock call made by run, this.hardfork is the hardfork
\* computed for the block
HardforkAtRunBlock ==
  [][\A p \in Callers :
       (CallbackStep(p) /\ started) => hardfork' = HardforkBy(fr[p].iterBlock)]_vars

\* during a linear sync across one transition block the hardfork-switch
\* message is emitted once: never twice, not before the transition block is
\* delivered, and once the callback has acted on it, whether or not its
\* execution failed
SwitchedOnce ==
  /\ switchMsgs <= 1
  /\ switchMsgs = 1 <=> hardfork = "paris"
  /\ Number(cursors["vm"]) >= ParisBlock => switchMsgs = 1
  /\ \A p \in Callers :
       (fr[p].op = "run" /\ pc[p] # "run_cb" /\ fr[p].cbHead # Undefined
          /\ Number(fr[p].iterBlock) >= ParisBlock) => switchMsgs = 1

\* C35: at every vm.runBlock call made by run, engine.hardfork equals the
\* hardfork computed for that block; during a linear sync across one
\* transition block the hardfork-switch message is emitted exactly once,
\* also when the transition block fails and is retried by a later run
C35_HardforkSwitching == HardforkAtRunBlock /\ []SwitchedOnce

\* the transition block has failed in one run and has been executed by a
\* later run, with one switch message in all
C35_Witness ==
  \E p \in Callers : \E q \in Callers :
    /\ fr[p].op = "run" /\ pc[p] = "done"
    /\ fr[p].errorBlock = Some(TransitionBlock)
    /\ fr[q].op = "run" /\ pc[q] = "done" /\ fr[q].executed > 0
    /\ cursors["vm"] = TransitionBlock
    /\ hardfork = "paris"
    /\ switchMsgs = 1

(***************************************************************************)
(* C36  Execution order within a run.                                       *)
(***************************************************************************)
\* the callback of caller p passes its block to vm.runBlock
RunBlockStep(p) == CallbackStep(p) /\ started

\* the root a block is executed on: that of the block executed immediately
\* before it when the call is not the first of its pass, the delivered
\* block's parent's after a reorg announcement
ExecutedOnPrevious(p) ==
  /\ (fr[p].iterCount > 0 /\ ~fr[p].iterReorg) =>
       /\ fr[p].lastOk # Undefined
       /\ fr'[p].cbParentState = Some(StateRoot(The(fr[p].lastOk)))
  /\ fr[p].iterReorg =>
       fr'[p].cbParentState = Some(StateRoot(ParentHash(fr[p].iterBlock)))

\* C36 (as stated): between two reorg announcements the blocks a run passes
\* to vm.runBlock have strictly ascending consecutive numbers, each block
\* after the first of a pass is executed on the state root of the block
\* executed immediately before it, and after a reorg announcement execution
\* resumes from the delivered block's parent
C36_AscendingOrder ==
  [][\A p \in Callers :
       RunBlockStep(p) =>
         /\ (fr[p].lastRun # Undefined /\ ~fr[p].iterReorg) =>
              Number(fr[p].iterBlock) = Number(The(fr[p].lastRun)) + 1
         /\ ExecutedOnPrevious(p)]_vars

\* the same for the blocks a run has executed, a block that failed left aside
C36_ExecutedAscending ==
  [][\A p \in Callers :
       (RunBlockStep(p) /\ fr'[p].lastOk # fr[p].lastOk) =>
         /\ (fr[p].lastOk # Undefined /\ ~fr[p].iterReorg) =>
              Number(fr[p].iterBlock) = Number(The(fr[p].lastOk)) + 1
         /\ ExecutedOnPrevious(p)]_vars

(***************************************************************************)
(* C37  The null sentinel.                                                  *)
(***************************************************************************)
\* the handler of caller p takes its step on a pass that failed with no
\* errorBlock recorded
NullHandlerStep(p) ==
  pc[p] = "run_catch" /\ pc'[p] # "run_catch" /\ fr[p].errorBlock = Undefined

\* a run whose pass has yielded null starts no further pass and returns 0
\* without throwing
NullEndsRun ==
  \A p \in Callers :
    (fr[p].op = "run" /\ fr[p].numKind = "null") =>
      /\ pc[p] \in {"run_after", "run_loop", "run_exit", "done"}
      /\ pc[p] \in {"run_exit", "done"} =>
           (fr[p].result = "number" /\ fr[p].returned = 0)

\* C37: when the iterator fails outside the per-block scope (no errorBlock
\* recorded) the pass yields the null sentinel: the outer loop performs no
\* further iteration, SYNC_EXECUTION_VM_ERROR is not emitted, the handler
\* does not change the vm cursor, and run returns 0 without throwing
C37_NullSentinel ==
  /\ []NullEndsRun
  /\ [][\A p \in Callers :
          NullHandlerStep(p) =>
            /\ fr'[p].numKind = "null"
            /\ fr'[p].vmErrors = fr[p].vmErrors
            /\ cursors' = cursors]_vars

\* a looping run has executed a full pass, its next pass has failed outside
\* the per-block scope, and the run has returned 0
C37_Witness ==
  \E p \in Callers :
    /\ fr[p].op = "run" /\ pc[p] = "done" /\ fr[p].loop
    /\ fr[p].numKind = "null" /\ fr[p].errorBlock = Undefined
    /\ fr[p].executed > 0 /\ fr[p].passes > 1
    /\ fr[p].numExecuted = numBlocksPerIteration
    /\ cursors["vm"] # canonicalHead
    /\ fr[p].returned = 0

(***************************************************************************)
(* C38  vm.runBlock fails inside runWithoutSetHead.                         *)
(***************************************************************************)
\* vm.runBlock fails in the runWithoutSetHead body of caller p
RwshFailStep(p) ==
  /\ fr[p].op = "rwsh" /\ pc[p] = "rw_exec" /\ pc'[p] = "rw_exit"
  /\ fr'[p].error # ""

\* a runWithoutSetHead call that threw hands its error to caller p
RwshThrowStep(p) ==
  fr[p].op = "rwsh" /\ pc[p] = "rw_exit" /\ pc'[p] = "done" /\ fr[p].result = "threw"

\* the gate is free or has been handed to a caller that was waiting for it
GateAvailableNext ==
  \/ permits' = 1
  \/ \E q \in Callers : pc[q] = "suspended" /\ pc'[q] = fr[q].next

\* C38: when vm.runBlock fails inside runWithoutSetHead the error is
\* surfaced to the caller after the gate has been released and running has
\* been reset to false, and the call has had no effect: pendingReceipts has no
\* new entry for the block and no total-difficulty, block, header or
\* hash->number record has been written; a later operation can acquire the gate
C38_RwshFailure ==
  [][\A p \in Callers :
       /\ RwshFailStep(p) =>
            /\ fr'[p].result = "threw"
            /\ ~running'
            /\ pendingReceipts' = pendingReceipts
            /\ store' = store
       /\ RwshThrowStep(p) =>
            /\ ~running /\ ~running'
            /\ GateAvailableNext
            /\ pendingReceipts' = fr[p].snap.pending
            /\ fr[p].wrote = {}]_vars

\* a runWithoutSetHead call has thrown the error of vm.runBlock and another
\* caller, which was waiting for the gate, is in its body
C38_Witness ==
  \E p \in Callers : \E q \in Callers :
    /\ fr[p].op = "rwsh" /\ pc[p] = "done" /\ fr[p].result = "threw"
    /\ fr[p].error = "vm error" /\ fr[p].ranBlock = 1
    /\ fr[p].blk \notin DOMAIN pendingReceipts
    /\ fr[p].blk \notin tdRec /\ fr[p].blk \notin hashToNumber
    /\ q # p /\ InBody(q) /\ permits = 0

(***************************************************************************)
(* C39  run terminates under a persistent block failure.                    *)
(***************************************************************************)
\* a run call is under way: called and not yet returned
RunUnderWay(p) == fr[p].op = "run" /\ pc[p] # "done"

\* C39 (as stated): for every numBlocksPerIteration >= 1, a call run(true)
\* eventually returns, also when a block's execution fails on every attempt:
\* the outer loop does not retry the failing block for ever
C39_RunTerminates ==
  \A p \in Callers : RunUnderWay(p) ~> (fr[p].op = "run" /\ pc[p] = "done")

\* the same where a pass takes more than one block
C39_RunTerminatesBatched ==
  numBlocksPerIteration = 1 \/ C39_RunTerminates

(***************************************************************************)
(* C40  A setHead call that fails is all-or-nothing.                        *)
(***************************************************************************)
\* a setHead call has failed at the canonicality check
FailedAtCanonicalCheck(p) ==
  InSetHead(p) /\ pc[p] = "sh_exit" /\ fr[p].error = "not in canonical chain"

\* C40 (as stated): when setHead fails at the canonicality check the
\* canonical number->hash mapping and pendingReceipts are as before the call:
\* no block of `blocks` has been made canonical and no pending entry has been
\* drained, so the same setHead can be retried with its receipts still stashed
C40_FailedSetHeadChangesNothing ==
  \A p \in Callers :
    FailedAtCanonicalCheck(p) =>
      /\ fr[p].promoted = {}
      /\ fr[p].drained = EmptyMap
      /\ pendingReceipts = fr[p].snap.pending
====
